---- MODULE Spec2Model ----
(***************************************************************************)
(* Model of the traversal controllers and the job registry of the AML      *)
(* detection engine:                                                       *)
(*   backend/app/automation.py  AutomationController (job registry)        *)
(*   backend/app/crawler.py     BlockchainCrawler (worklist crawl)         *)
(*   backend/app/expansion.py   AutoExpansion (recursive expansion)        *)
(*   backend/app/ml_models.py   get_address_risk_score (Risk Scorer)       *)
(*   backend/app/monitor.py     BlockchainMonitor (periodic checks)        *)
(*   backend/app/bulk_analysis.py  BulkAnalyzer (batch analysis)           *)
(* together with ingestion and the detection pipeline.  The module holds   *)
(* one specification per component; each leaves the other components'      *)
(* variables at their constructed value.                                   *)
(***************************************************************************)
EXTENDS Integers, Sequences, FiniteSets, TLC

VARIABLES
    \* ---- AutomationController --------------------------------------
    active_jobs,      \* self.active_jobs: job id -> job record
    job_counter,      \* self.job_counter
    run_mode,         \* job id -> "async" | "sync" (the run_async argument)
    pc,               \* job id -> position of the unit that executes the job
    cancel_call,      \* the cancel_job call in flight (its position and id)
    ret,              \* what the last cancel_job / get_job_status returned
    cancel_true,      \* job ids for which cancel_job has returned True
    cancel_hit,       \* job ids a cancel_job call has passed the status test for
    outcome,          \* job id -> "pending" | "returned" | "raised": what the
                      \* controller function of the job did
    visited_at_cancel, \* job id -> the number of addresses the crawler had
                      \* visited when cancel_job marked the job cancelled
    \* ---- BlockchainCrawler -----------------------------------------
    seed_addresses,   \* self.seed_addresses (as given, any letter case)
    max_depth,        \* self.max_depth
    min_risk_score_to_expand,
    max_addresses,    \* self.max_addresses
    visited,          \* self.visited
    to_analyze,       \* self.to_analyze: sequence of <<address, depth>>
    suspicious_found, \* self.suspicious_found
    crawl_stats,      \* self.stats (the two counters the loop maintains)
    crawl_pc,         \* "new" (constructed) | "loop" | "done" (crawl returned)
    analyze_calls,    \* canonical address -> number of _analyze_address calls
    crawl_failures,   \* the kinds of failure the crawl has met so far:
                      \* "ingest", "pipeline", "scoring", "query"
    conn_queries,     \* number of _get_connected_addresses calls made
    last_visit,       \* the last analyzed entry: its address and depth, its
                      \* quick-risk score (-1: none computed), whether its
                      \* counterparties were queried, how many were queued
    \* ---- AutoExpansion ---------------------------------------------
    initial_address,  \* the argument of analyze_with_expansion (any letter case)
    trigger_risk_score,
    expansion_depth,
    expanded_addresses,   \* self.expanded_addresses
    expansion_map,        \* self.expansion_map: address -> its counterparties
    exp_stats,            \* self.stats
    initial_analysis,     \* results["initial_analysis"]
    exp_results,          \* the expansion results, in the order they are made
    exp_stack,            \* the active _expand_from_address calls, innermost last
    exp_pc,               \* "new" | "running" | "done" (returned) | "raised"
    store_alerts,         \* graph store: canonical address -> number of Alerts
    full_calls,           \* canonical address -> number of _full_analysis calls
    cp_depths,            \* the depths at which counterparties were analyzed
    depth_stops,          \* whether a call returned at the depth test (line 98)
    last_expand,          \* the last address whose counterparties were fetched,
                          \* the score that triggered it and the Risk Scorer's
                          \* score of it at that moment
    \* ---- Ingestion (core.ingest_address) ----------------------------
    chain,            \* the explorer's ledger: hash -> [from, to, value]
    transactions,     \* stored Transaction nodes: hash -> [from, to, value]
    transfers,        \* stored TRANSFER edges: <<from, to>> -> [count, value_sum]
    ingest_calls,     \* number of ingest_address calls made
    ingest_ret,       \* the "ingested" count the last call returned
    \* ---- Detection Pipeline and Risk Scorer on the graph store -------
    evidence,         \* address -> what the detectors' queries find for it
                      \* and the structural features of its node
    alert_nodes,      \* Alert nodes: <<type, address, now>> -> record
    node_risk_score,  \* address -> the risk_score property of its node
    pipeline_runs,    \* number of run_all_analytics calls made
    analyze_scores,   \* address -> the scores /analyze returned for it since
                      \* the graph last changed
    pipeline_ret,     \* how the last run_all_analytics call ended, the
                      \* detector whose query raised in it (0: none) and
                      \* the number of detectors that ran to their end
    \* ---- Risk Scorer on one Address node ---------------------------
    sc_node,          \* whether the Address node exists in the graph store
    sc_features,      \* the stored feature properties of the node
    sc_alerts,        \* the number of Alert nodes attached to it
    sc_written,       \* the risk_score property of the node (-1: never set)
    sc_prev,          \* the call before the last
    sc_last,          \* the last get_address_risk_score call: the Alerts it
                      \* counted, the score it returned, whether it found
                      \* the node
    \* ---- BlockchainMonitor ------------------------------------------
    duration_hours,   \* the argument of start_monitor (0: None)
    check_interval,   \* self.check_interval_seconds, in units of 60 s
    mon_clock,        \* datetime.utcnow(), in units of 60 s
    end_time,         \* end_time of start_monitoring (-1: None)
    mon_pc,           \* "new" | "once" (in check_once) | "loop" (at the top
                      \* of the while of start_monitoring) | "done" | "raised"
    last_check_block, \* self.last_check_block (-1: None)
    monitored_addresses,  \* self.monitored_addresses
    checks_completed, \* self.stats["checks_completed"]
    db_block,         \* the highest block of a stored Transaction (-1: none)
    events_left,      \* how many more ticks the chain and the store may
                      \* answer with something new
    check_calls,      \* number of _check_recent_activity calls made
    scan_ranges,      \* the non-empty block ranges whose scan completed
    first_start,      \* start_block of the first range determined (-1: none)
    observed_block,   \* the highest current block a tick has observed
    analysis_attempts, \* address -> number of times its analysis was begun
    \* ---- concurrent start_*_job calls --------------------------------
    call_pc,          \* caller -> "idle" | "loaded" | "stored" | "named" | "done"
    call_kind,        \* caller -> the job_type of its start call
    call_tmp,         \* caller -> the self.job_counter it loaded (line 284)
    call_id,          \* caller -> the job id it built (line 286)
    wall_second,      \* datetime.utcnow(), in seconds
    overwritten,      \* whether a start call replaced a record of the registry
    \* ---- BulkAnalyzer ------------------------------------------------
    bulk_addresses,   \* the argument addresses of bulk_analyze
    bulk_parallel,    \* the argument parallel
    bulk_pc,          \* "new" | "parallel" | "sequential" | "done"
    bulk_futures,     \* the futures submitted, by index into addresses
    future_result,    \* index -> what the worker's call returned
    bulk_yielded,     \* the futures as_completed has yielded
    bulk_results,     \* the local list results
    bulk_ret          \* the statistics bulk_analyze returns

jvars == <<active_jobs, job_counter, run_mode, pc, cancel_call, ret,
           cancel_true, cancel_hit, outcome, visited_at_cancel>>

cvars == <<seed_addresses, max_depth, min_risk_score_to_expand, max_addresses,
           visited, to_analyze, suspicious_found, crawl_stats, crawl_pc,
           analyze_calls, crawl_failures,
                   conn_queries, last_visit>>

evars == <<initial_address, trigger_risk_score, expansion_depth,
           expanded_addresses, expansion_map, exp_stats, initial_analysis,
           exp_results, exp_stack, exp_pc, store_alerts, full_calls, cp_depths,
           depth_stops, last_expand>>

ivars == <<chain, transactions, transfers, ingest_calls, ingest_ret>>

pvars == <<evidence, alert_nodes, node_risk_score, pipeline_runs,
           analyze_scores, pipeline_ret>>

svars == <<sc_node, sc_features, sc_alerts, sc_written, sc_prev, sc_last>>

mvars == <<duration_hours, check_interval, mon_clock, end_time, mon_pc,
           last_check_block, monitored_addresses, checks_completed, db_block,
           events_left, check_calls, scan_ranges, first_start, observed_block,
           analysis_attempts>>

gvars == <<call_pc, call_kind, call_tmp, call_id, wall_second, overwritten>>

bvars == <<bulk_addresses, bulk_parallel, bulk_pc, bulk_futures,
           future_result, bulk_yielded, bulk_results, bulk_ret>>

vars == <<jvars, cvars, evars, ivars, pvars, svars, mvars, gvars, bvars>>

\* What the actions of one component leave alone.
NonJobVars == <<cvars, evars, ivars, pvars, svars, mvars, gvars, bvars>>
NonCrawlVars == <<jvars, evars, ivars, pvars, svars, mvars, gvars, bvars>>
NonExpVars == <<jvars, cvars, ivars, pvars, svars, mvars, gvars, bvars>>
NonIngestVars == <<jvars, cvars, evars, pvars, svars, mvars, gvars, bvars>>
NonPipelineVars == <<jvars, cvars, evars, ivars, svars, mvars, gvars, bvars>>
NonScorerVars == <<jvars, cvars, evars, ivars, pvars, mvars, gvars, bvars>>
NonMonitorVars == <<jvars, cvars, evars, ivars, pvars, svars, gvars, bvars>>
NonBulkVars == <<jvars, cvars, evars, ivars, pvars, svars, mvars, gvars>>

(***************************************************************************)
(*                      AutomationController                               *)
(***************************************************************************)

\* Number of start_*_job calls in one behaviour.
MaxJobs == 1

JobKinds == {"crawler", "monitor", "expansion"}

\* The ids _generate_job_id can hand out: "{kind}_{timestamp}_{counter}".
\* The timestamp is a function of the wall clock and is left out.
JobIds == JobKinds \X (1..MaxJobs)

\* An id no start call ever produced (cancel_job / get_job_status on it).
UnknownId == <<"crawler", 0>>

\* automation.py:282-286
GenerateJobId(kind, counter) == <<kind, counter + 1>>

\* automation.py:51-64 (params and started_at carry no behaviour and are
\* left out; "None" stands for Python's None / an absent key).
NewJobInfo(kind) ==
    [type |-> kind, status |-> "started", result |-> "None",
     error |-> "None", completed_at |-> FALSE]

\* Which controller functions can raise an Exception on well-typed input:
\* crawl() catches every per-address failure (crawler.py:72-90);
\* check_once() calls _check_recent_activity outside any try (monitor.py:90),
\* and _expand_from_address calls _get_connected_addresses outside any try
\* (expansion.py:105).
CanRaise(kind) == kind \in {"monitor", "expansion"}

\* automation.py:274: the test cancel_job makes before it writes.
CancelEligibleAlways(job) == TRUE
CancelEligible(job) == job.status = "started"

\* automation.py:200/215/230 and 80/133/189: the status written on return.
StatusOnReturn == "completed"

\* automation.py:205/220/235: the status the except clause writes.
StatusOnRaise == "failed"

\* Where a raising controller function takes the executing unit.
\* Background thread: into its except clause (automation.py:203, 218, 233).
\* Inline call (run_async=False): there is no try around lines 78, 131, 187,
\* so the exception leaves start_*_job.
AfterRaiseNoHandler(mode) == IF mode = "async" THEN "escaped" ELSE "propagated"
AfterRaise(mode) == IF mode = "async" THEN "exc_status" ELSE "propagated"

\* The value cancel_job stores as result (automation.py:276).
CancelMessage == "cancel_msg"

JobsInit ==
    /\ active_jobs = << >>
    /\ job_counter = 0
    /\ run_mode = << >>
    /\ pc = << >>
    /\ cancel_call = [at |-> "idle", id |-> UnknownId]
    /\ ret = [op |-> "none", id |-> UnknownId, value |-> "None"]
    /\ cancel_true = {}
    /\ cancel_hit = {}
    /\ outcome = << >>
    /\ visited_at_cancel = << >>

\* start_crawler_job / start_monitor_job / start_expansion_job up to the
\* point where the controller function starts running
\* (automation.py:49-75, 104-128, 159-184).
start_job(kind, mode) ==
    /\ job_counter < MaxJobs
    /\ LET id == GenerateJobId(kind, job_counter) IN
        /\ job_counter' = job_counter + 1
        /\ active_jobs' = (id :> NewJobInfo(kind)) @@ active_jobs
        /\ run_mode' = (id :> mode) @@ run_mode
        /\ pc' = (id :> "run") @@ pc
        /\ outcome' = (id :> "pending") @@ outcome
    /\ UNCHANGED <<cancel_call, ret, cancel_true, cancel_hit>>
    /\ UNCHANGED <<visited_at_cancel, NonJobVars>>

\* The controller function (run_crawler, start_monitor,
\* analyze_with_auto_expansion) returns its result
\* (automation.py:198/213/228, 78/131/187).
controller_returns(id) ==
    /\ id \in DOMAIN pc /\ pc[id] = "run"
    /\ pc' = [pc EXCEPT ![id] = "result"]
    /\ outcome' = [outcome EXCEPT ![id] = "returned"]
    /\ UNCHANGED <<active_jobs, job_counter, run_mode, cancel_call, ret,
                   cancel_true, cancel_hit>>
    /\ UNCHANGED <<visited_at_cancel, NonJobVars>>

\* The controller function raises.
controller_raises(id) ==
    /\ id \in DOMAIN pc /\ pc[id] = "run"
    /\ CanRaise(active_jobs[id].type)
    /\ pc' = [pc EXCEPT ![id] = AfterRaise(run_mode[id])]
    /\ outcome' = [outcome EXCEPT ![id] = "raised"]
    /\ UNCHANGED <<active_jobs, job_counter, run_mode, cancel_call, ret,
                   cancel_true, cancel_hit>>
    /\ UNCHANGED <<visited_at_cancel, NonJobVars>>

\* automation.py:199/214/229 and 79/132/188
write_result(id) ==
    /\ id \in DOMAIN pc /\ pc[id] = "result"
    /\ active_jobs' = [active_jobs EXCEPT ![id].result = "returned"]
    /\ pc' = [pc EXCEPT ![id] = "status"]
    /\ UNCHANGED <<job_counter, run_mode, cancel_call, ret, cancel_true,
                   cancel_hit,
                   outcome>>
    /\ UNCHANGED <<visited_at_cancel, NonJobVars>>

\* automation.py:200/215/230 and 80/133/189
write_status(id) ==
    /\ id \in DOMAIN pc /\ pc[id] = "status"
    /\ active_jobs' = [active_jobs EXCEPT ![id].status = StatusOnReturn]
    /\ pc' = [pc EXCEPT ![id] = "completed_at"]
    /\ UNCHANGED <<job_counter, run_mode, cancel_call, ret, cancel_true,
                   cancel_hit,
                   outcome>>
    /\ UNCHANGED <<visited_at_cancel, NonJobVars>>

\* automation.py:201/216/231 and 81/134/190, then the unit ends: the thread
\* function returns, or start_*_job returns job_info (line 83/136/192).
write_completed_at(id) ==
    /\ id \in DOMAIN pc /\ pc[id] = "completed_at"
    /\ active_jobs' = [active_jobs EXCEPT ![id].completed_at = TRUE]
    /\ pc' = [pc EXCEPT ![id] =
                 IF run_mode[id] = "async" THEN "done" ELSE "returned"]
    /\ UNCHANGED <<job_counter, run_mode, cancel_call, ret, cancel_true,
                   cancel_hit,
                   outcome>>
    /\ UNCHANGED <<visited_at_cancel, NonJobVars>>

\* automation.py:205/220/235
except_status(id) ==
    /\ id \in DOMAIN pc /\ pc[id] = "exc_status"
    /\ active_jobs' = [active_jobs EXCEPT ![id].status = StatusOnRaise]
    /\ pc' = [pc EXCEPT ![id] = "exc_error"]
    /\ UNCHANGED <<job_counter, run_mode, cancel_call, ret, cancel_true,
                   cancel_hit,
                   outcome>>
    /\ UNCHANGED <<visited_at_cancel, NonJobVars>>

\* automation.py:206/221/236
except_error(id) ==
    /\ id \in DOMAIN pc /\ pc[id] = "exc_error"
    /\ active_jobs' = [active_jobs EXCEPT ![id].error = "error_text"]
    /\ pc' = [pc EXCEPT ![id] = "exc_completed_at"]
    /\ UNCHANGED <<job_counter, run_mode, cancel_call, ret, cancel_true,
                   cancel_hit,
                   outcome>>
    /\ UNCHANGED <<visited_at_cancel, NonJobVars>>

\* automation.py:207/222/237
except_completed_at(id) ==
    /\ id \in DOMAIN pc /\ pc[id] = "exc_completed_at"
    /\ active_jobs' = [active_jobs EXCEPT ![id].completed_at = TRUE]
    /\ pc' = [pc EXCEPT ![id] = "done"]
    /\ UNCHANGED <<job_counter, run_mode, cancel_call, ret, cancel_true,
                   cancel_hit,
                   outcome>>
    /\ UNCHANGED <<visited_at_cancel, NonJobVars>>

\* automation.py:239-241
get_job_status(id) ==
    /\ ret' = [op |-> "get", id |-> id,
               value |-> IF id \in DOMAIN active_jobs
                         THEN active_jobs[id].status ELSE "None"]
    /\ UNCHANGED <<active_jobs, job_counter, run_mode, pc, cancel_call,
                   cancel_true, cancel_hit,
                   outcome>>
    /\ UNCHANGED <<visited_at_cancel, NonJobVars>>

\* cancel_job, lines 270-274: the membership test and the status test.
cancel_check(id) ==
    /\ cancel_call.at = "idle"
    /\ IF id \in DOMAIN active_jobs /\ CancelEligible(active_jobs[id])
       THEN /\ cancel_call' = [at |-> "set_status", id |-> id]
            /\ cancel_hit' = cancel_hit \cup {id}
            /\ UNCHANGED ret
       ELSE /\ ret' = [op |-> "cancel", id |-> id, value |-> "False"]
            /\ UNCHANGED <<cancel_call, cancel_hit>>
    /\ UNCHANGED <<active_jobs, job_counter, run_mode, pc, cancel_true, outcome>>
    /\ UNCHANGED <<visited_at_cancel, NonJobVars>>

\* cancel_job, line 275
cancel_set_status ==
    /\ cancel_call.at = "set_status"
    /\ active_jobs' = [active_jobs EXCEPT ![cancel_call.id].status = "cancelled"]
    /\ cancel_call' = [cancel_call EXCEPT !.at = "set_result"]
    /\ visited_at_cancel' =
           (cancel_call.id :> Cardinality(visited)) @@ visited_at_cancel
    /\ UNCHANGED <<job_counter, run_mode, pc, ret, cancel_true, cancel_hit,
                   outcome>>
    /\ UNCHANGED NonJobVars

\* cancel_job, lines 276-278
cancel_set_result ==
    /\ cancel_call.at = "set_result"
    /\ active_jobs' = [active_jobs EXCEPT ![cancel_call.id].result = CancelMessage]
    /\ ret' = [op |-> "cancel", id |-> cancel_call.id, value |-> "True"]
    /\ cancel_true' = cancel_true \cup {cancel_call.id}
    /\ cancel_call' = [at |-> "idle", id |-> UnknownId]
    /\ UNCHANGED <<job_counter, run_mode, pc, cancel_hit,
                   outcome>>
    /\ UNCHANGED <<visited_at_cancel, NonJobVars>>



JobsNext ==
    \/ \E kind \in JobKinds, mode \in {"async", "sync"} : start_job(kind, mode)
    \/ \E id \in JobIds : controller_returns(id)
    \/ \E id \in JobIds : controller_raises(id)
    \/ \E id \in JobIds : write_result(id)
    \/ \E id \in JobIds : write_status(id)
    \/ \E id \in JobIds : write_completed_at(id)
    \/ \E id \in JobIds : except_status(id)
    \/ \E id \in JobIds : except_error(id)
    \/ \E id \in JobIds : except_completed_at(id)
    \/ \E id \in JobIds \cup {UnknownId} : get_job_status(id)
    \/ \E id \in JobIds \cup {UnknownId} : cancel_check(id)
    \/ cancel_set_status
    \/ cancel_set_result

(***************************************************************************)
(*                     Properties of the job registry                      *)
(***************************************************************************)

TerminalStatuses == {"completed", "failed"}

\* C7: cancel_job(job_id) returns True and sets the status to "cancelled"
\* exactly when, at its test, the job exists with status "started"; for an
\* unknown id or a job that is completed, failed or cancelled it returns
\* False and leaves the registry unchanged.
CancelJobContract ==
    [][ /\ (cancel_call.at = "idle" /\ cancel_call'.at = "set_status")
            => /\ cancel_call'.id \in DOMAIN active_jobs
               /\ active_jobs[cancel_call'.id].status = "started"
               /\ active_jobs' = active_jobs
        /\ (ret' # ret /\ ret'.op = "cancel" /\ ret'.value = "False")
            => /\ ~(/\ ret'.id \in DOMAIN active_jobs
                    /\ active_jobs[ret'.id].status = "started")
               /\ active_jobs' = active_jobs
        /\ (cancel_call.at = "set_status" /\ cancel_call' # cancel_call)
            => active_jobs' =
                 [active_jobs EXCEPT ![cancel_call.id].status = "cancelled"]
        /\ (ret' # ret /\ ret'.op = "cancel" /\ ret'.value = "True")
            => /\ cancel_call.at = "set_result"
               /\ ret'.id = cancel_call.id
        /\ (cancel_call' = cancel_call /\ pc' = pc /\ job_counter' = job_counter)
            => active_jobs' = active_jobs
      ]_vars

\* A job was cancelled (True), and a second cancel_job on it returned False.
CancelJobContractWitness ==
    /\ ret.op = "cancel" /\ ret.value = "False"
    /\ ret.id \in cancel_true
    /\ active_jobs[ret.id].status = "cancelled"

\* C8: once cancel_job has returned True for a job started with
\* run_async=True, every later get_job_status for it reports "cancelled".
CancelledStaysCancelled ==
    [][ \A id \in cancel_true :
          (run_mode[id] = "async" /\ ret' # ret /\ ret'.op = "get" /\ ret'.id = id)
              => ret'.value = "cancelled"
      ]_vars

\* C9: for an async job that is never cancelled, the status changes only
\* from "started": to "completed" with the returned result when the
\* controller function returned, to "failed" when it raised; when the
\* thread ends the record holds the result, or "failed" with the error
\* text; no exception leaves the thread.
AsyncJobOutcome ==
    [][ \A id \in DOMAIN active_jobs :
          (run_mode[id] = "async" /\ id \notin cancel_hit')
          => LET j == active_jobs[id]
                 k == active_jobs'[id]
             IN /\ k.status # j.status
                    => /\ j.status = "started"
                       /\ \/ /\ outcome[id] = "returned"
                             /\ k.status = "completed"
                             /\ k.result = "returned"
                          \/ /\ outcome[id] = "raised"
                             /\ k.status = "failed"
                /\ pc'[id] = "done"
                    => \/ /\ outcome[id] = "returned"
                          /\ k.status = "completed"
                          /\ k.result = "returned"
                       \/ /\ outcome[id] = "raised"
                          /\ k.status = "failed"
                          /\ k.error = "error_text"
                /\ pc'[id] \notin {"escaped", "propagated"}
      ]_vars

\* The thread of an async job that was never cancelled has ended after its
\* controller function raised.
AsyncJobOutcomeWitness ==
    \E id \in DOMAIN active_jobs :
        /\ run_mode[id] = "async" /\ id \notin cancel_hit
        /\ pc[id] = "done" /\ outcome[id] = "raised"
        /\ active_jobs[id].status = "failed"
        /\ active_jobs[id].error = "error_text"

\* C10: a start_*_job call with run_async=False ends by returning a record
\* whose status is completed or failed, never by raising, and leaves no
\* record with status "started", also when the controller function raises.
SyncStartReturnsTerminal ==
    \A id \in DOMAIN active_jobs :
        (run_mode[id] = "sync" /\ pc[id] \in {"returned", "propagated"})
        => /\ pc[id] = "returned"
           /\ active_jobs[id].status \in TerminalStatuses

\* C11: under any interleaving of cancel_job with the job's background
\* thread, once both writers are through, the status and the result of a job
\* record come from the same writer: "cancelled" goes with the cancellation
\* message and "completed" with the result the controller function returned.
\* Neither writer takes a lock, so the record can end mixed.
JobStatusResultAgree ==
    \A id \in DOMAIN active_jobs :
        (run_mode[id] = "async" /\ pc[id] = "done" /\ cancel_call.at = "idle")
        => /\ active_jobs[id].status = "cancelled"
               => active_jobs[id].result = CancelMessage
           /\ active_jobs[id].status = "completed"
               => active_jobs[id].result = "returned"

(***************************************************************************)
(*                          Addresses and alerts                           *)
(***************************************************************************)

\* Number of distinct canonical addresses.
NumAddr == 2

\* An address as a string is a canonical address in some letter case.
LetterCases == {"lower", "mixed"}
RawAddrs == (1..NumAddr) \X LetterCases
CanonAddrs == (1..NumAddr) \X {"lower"}

\* str.lower()
Lower(a) == <<a[1], "lower">>

Min(a, b) == IF a <= b THEN a ELSE b
Max(a, b) == IF a >= b THEN a ELSE b

\* The keys of the map run_all_analytics returns (aml_analytics.py:419-432).
AlertTypes == {"structuring", "peel_chains", "mixer_activity", "taint",
               "circularity", "velocity_alert", "dormant_reactivation",
               "round_amounts", "timing_patterns", "wash_trading"}

\* The result of one run_all_analytics call, as the number of entries each
\* detector returned.  NoAlerts is also the {} the crawler substitutes when
\* the pipeline fails (crawler.py:124).
NoAlerts == [t \in AlertTypes |-> 0]

AnalyticsCases ==
    { NoAlerts,
      [NoAlerts EXCEPT !["structuring"] = 2],
      [NoAlerts EXCEPT !["peel_chains"] = 2],
      [NoAlerts EXCEPT !["mixer_activity"] = 2, !["taint"] = 2,
                       !["circularity"] = 1, !["velocity_alert"] = 1,
                       !["wash_trading"] = 1] }

AlertCount(analytics) ==
    analytics["structuring"] + analytics["peel_chains"]
        + analytics["mixer_activity"] + analytics["taint"]
        + analytics["circularity"] + analytics["velocity_alert"]
        + analytics["dormant_reactivation"] + analytics["round_amounts"]
        + analytics["timing_patterns"] + analytics["wash_trading"]

(***************************************************************************)
(*                          BlockchainCrawler                              *)
(***************************************************************************)

\* The values the crawl parameters are drawn from, and the lengths of the
\* seed list and of one answer of the counterparty query (LIMIT 50 in the
\* source).
SeedLengths == {0, 1, 2}
ConnLengths == {0, 1, 2}
MaxDepthChoices == {0, 1, 2}
MaxAddressesChoices == {0, 1, 2, 3}

\* crawler.py:135: the crawler's suspicion floor.
SuspicionFloor == 40

MinRiskChoices == {30, 60}

SeqsOfLengths(S, L) == UNION { [1..k -> S] : k \in L }

\* Sequences without repeated elements (a query that returns DISTINCT rows).
DistinctSeqsOfLengths(S, L) ==
    { q \in SeqsOfLengths(S, L) : \A i, j \in 1..Len(q) : i # j => q[i] # q[j] }

\* What the counterparty query can answer: the rows of
\* RETURN DISTINCT other.address ... LIMIT 50, as stored (any letter case).
ConnAnswers == DistinctSeqsOfLengths(RawAddrs, ConnLengths)

\* The outcomes of one counterparty query: rows, or the query raises.
\* NoQuery marks an iteration that does not make the query.
ConnOutcomes ==
    { [kind |-> "rows", rows |-> r] : r \in ConnAnswers }
        \cup { [kind |-> "fail", rows |-> << >>] }
NoQuery == [kind |-> "none", rows |-> << >>]

\* The outcomes of one run of the detection pipeline followed by the
\* scoring of its result: a result map that is scored, a result map whose
\* scoring raises, or the pipeline raises.  NoAnalytics marks an analysis
\* that does not reach the pipeline.
AnalyticsOutcomes ==
    { [raised |-> FALSE, out |-> c, score_raised |-> r] :
          c \in AnalyticsCases, r \in BOOLEAN }
        \cup { [raised |-> TRUE, out |-> NoAlerts, score_raised |-> FALSE] }
NoAnalytics == [raised |-> FALSE, out |-> NoAlerts, score_raised |-> FALSE]

\* crawler.py:146-166
calculate_quick_risk_score(analytics) ==
    LET part(t, cap, w) ==
            IF analytics[t] = 0 THEN 0 ELSE Min(cap, analytics[t] * w)
    IN Min(100, part("structuring", 30, 15) + part("peel_chains", 40, 20)
                + part("mixer_activity", 50, 25) + part("taint", 40, 20)
                + part("circularity", 35, 15))

\* crawler.py:118-132: the quick-risk score _analyze_address computes once
\* ingestion has succeeded.
QuickScore(an) ==
    LET analytics == IF an.raised THEN NoAlerts ELSE an.out
    IN IF an.score_raised THEN 0 ELSE calculate_quick_risk_score(analytics)

\* A crawler that reports every scored address.
IsSuspiciousAlways(risk_score) == TRUE

\* crawler.py:135
IsSuspicious(risk_score) == risk_score >= SuspicionFloor

\* crawler.py:101-144.  ingest is "ok", "empty" (ingested = 0) or "fail"
\* (ingest_address raised); an is an element of AnalyticsOutcomes: a
\* pipeline that raises leaves analytics empty (lines 122-124), a scoring
\* that raises leaves risk_score = 0 (lines 130-132).
\* found = FALSE stands for the None result.
analyze_address(address, depth, ingest, an) ==
    IF ingest # "ok"
    THEN [found |-> FALSE, address |-> address, depth |-> depth, risk_score |-> 0]
    ELSE LET risk_score == QuickScore(an)
         IN [found |-> IsSuspicious(risk_score), address |-> address,
             depth |-> depth,
             risk_score |-> IF IsSuspicious(risk_score) THEN risk_score ELSE 0]

\* crawler.py:168-191: the answer of the store, lower-cased.
get_connected_addresses(answer) == [i \in 1..Len(answer) |-> Lower(answer[i])]

\* crawler.py:60: the worklist entry made from a seed.
SeedEntry(seed) == <<Lower(seed), 0>>

\* crawler.py:62: the loop condition.
LoopGuardInclusive == to_analyze # << >> /\ Cardinality(visited) <= max_addresses
LoopGuardEarly == to_analyze # << >> /\ Cardinality(visited) < max_addresses - 1
LoopGuard == to_analyze # << >> /\ Cardinality(visited) < max_addresses

\* crawler.py:65: the test that skips a popped entry.
SkipEntryDepthOnly(address, depth) == depth > max_depth
SkipEntry(address, depth) == address \in visited \/ depth > max_depth

\* crawler.py:79: the test that decides on expansion.
ExpandTestNoDepth(result, depth) ==
    result.found /\ result.risk_score >= min_risk_score_to_expand
ExpandTest(result, depth) ==
    result.found /\ result.risk_score >= min_risk_score_to_expand
                 /\ depth < max_depth

\* An iteration whose exception leaves crawl().
AfterIterationNoHandler(failed) == IF failed THEN "raised" ELSE "loop"

\* crawler.py:72, 88-90: where crawl() stands after the body of an
\* iteration; an exception in it is logged and the loop continues.
AfterIteration(failed) == "loop"

\* Whether the iteration about to run reaches the counterparty query
\* (crawler.py:74, 79), given what ingestion and the pipeline will answer.
CrawlWillExpand(ingest, an) ==
    /\ crawl_pc = "loop" /\ to_analyze # << >>
    /\ ExpandTest(analyze_address(Head(to_analyze)[1], Head(to_analyze)[2],
                                  ingest, an),
                  Head(to_analyze)[2])

NoVisit == [address |-> <<0, "lower">>, depth |-> -1, score |-> -1,
            queried |-> FALSE, queued |-> 0]

CrawlInit ==
    /\ seed_addresses \in SeqsOfLengths(RawAddrs, SeedLengths)
    /\ max_depth \in MaxDepthChoices
    /\ min_risk_score_to_expand \in MinRiskChoices
    /\ max_addresses \in MaxAddressesChoices
    /\ visited = {}
    /\ to_analyze = << >>
    /\ suspicious_found = << >>
    /\ crawl_stats = [addresses_analyzed |-> 0, suspicious_found |-> 0]
    /\ crawl_pc = "new"
    /\ analyze_calls = [a \in CanonAddrs |-> 0]
    /\ crawl_failures = {}
    /\ conn_queries = 0
    /\ last_visit = NoVisit

\* The crawler before crawl() is called, for the specifications of the
\* other components.
CrawlIdle ==
    /\ seed_addresses = << >>
    /\ max_depth = 0
    /\ min_risk_score_to_expand = 60
    /\ max_addresses = 0
    /\ visited = {}
    /\ to_analyze = << >>
    /\ suspicious_found = << >>
    /\ crawl_stats = [addresses_analyzed |-> 0, suspicious_found |-> 0]
    /\ crawl_pc = "new"
    /\ analyze_calls = [a \in CanonAddrs |-> 0]
    /\ crawl_failures = {}
    /\ conn_queries = 0
    /\ last_visit = NoVisit

\* crawler.py:55-60: crawl() is entered and the seeds are queued.
crawl_start ==
    /\ crawl_pc = "new"
    /\ to_analyze' = to_analyze \o
           [i \in 1..Len(seed_addresses) |-> SeedEntry(seed_addresses[i])]
    /\ crawl_pc' = "loop"
    /\ UNCHANGED <<seed_addresses, max_depth, min_risk_score_to_expand,
                   max_addresses, visited, suspicious_found, crawl_stats,
                   analyze_calls, crawl_failures,
                   conn_queries, last_visit>>
    /\ UNCHANGED NonCrawlVars

\* crawler.py:62-66: one iteration that pops an entry and skips it.
crawl_skip ==
    /\ crawl_pc = "loop" /\ LoopGuard
    /\ SkipEntry(Head(to_analyze)[1], Head(to_analyze)[2])
    /\ to_analyze' = Tail(to_analyze)
    /\ UNCHANGED <<seed_addresses, max_depth, min_risk_score_to_expand,
                   max_addresses, visited, suspicious_found, crawl_stats,
                   crawl_pc, analyze_calls, crawl_failures,
                   conn_queries, last_visit>>
    /\ UNCHANGED NonCrawlVars

\* crawler.py:62-90: one iteration that analyzes the popped address.
\* conn is the outcome of the counterparty query (NoQuery when the
\* iteration does not make it).
crawl_visit(ingest, an, conn) ==
    /\ crawl_pc = "loop" /\ LoopGuard
    /\ LET address == Head(to_analyze)[1]
           depth == Head(to_analyze)[2]
           result == analyze_address(address, depth, ingest, an)
           expand == ExpandTest(result, depth)
           connected == IF expand /\ conn.kind = "rows"
                        THEN get_connected_addresses(conn.rows) ELSE << >>
           children == [i \in 1..Len(connected) |-> <<connected[i], depth + 1>>]
       IN
        /\ ~SkipEntry(address, depth)
        /\ (conn = NoQuery) <=> ~expand
        /\ (ingest # "ok") => an = NoAnalytics
        /\ visited' = visited \cup {address}
        /\ analyze_calls' = [analyze_calls EXCEPT ![Lower(address)] = @ + 1]
        /\ suspicious_found' = IF result.found
                               THEN Append(suspicious_found, result)
                               ELSE suspicious_found
        /\ to_analyze' = Tail(to_analyze) \o
               SelectSeq(children, LAMBDA c : c[1] \notin visited')
        /\ crawl_stats' =
               [addresses_analyzed |->
                    IF expand /\ conn.kind = "fail"
                    THEN crawl_stats.addresses_analyzed
                    ELSE crawl_stats.addresses_analyzed + 1,
                suspicious_found |->
                    IF result.found THEN crawl_stats.suspicious_found + 1
                    ELSE crawl_stats.suspicious_found]
        /\ crawl_failures' = crawl_failures
               \cup (IF ingest = "fail" THEN {"ingest"} ELSE {})
               \cup (IF an.raised THEN {"pipeline"} ELSE {})
               \cup (IF an.score_raised THEN {"scoring"} ELSE {})
               \cup (IF expand /\ conn.kind = "fail" THEN {"query"} ELSE {})
        /\ crawl_pc' = AfterIteration(expand /\ conn.kind = "fail")
        /\ conn_queries' = IF expand THEN conn_queries + 1 ELSE conn_queries
        /\ last_visit' =
               [address |-> address, depth |-> depth,
                score |-> IF ingest = "ok" THEN QuickScore(an) ELSE -1,
                queried |-> expand,
                queued |-> Len(to_analyze') - Len(Tail(to_analyze))]
    /\ UNCHANGED <<seed_addresses, max_depth, min_risk_score_to_expand,
                   max_addresses>>
    /\ UNCHANGED NonCrawlVars

\* crawler.py:62, 92-99: the loop condition fails and crawl() returns.
crawl_finish ==
    /\ crawl_pc = "loop" /\ ~LoopGuard
    /\ crawl_pc' = "done"
    /\ UNCHANGED <<seed_addresses, max_depth, min_risk_score_to_expand,
                   max_addresses, visited, to_analyze, suspicious_found,
                   crawl_stats, analyze_calls, crawl_failures,
                   conn_queries, last_visit>>
    /\ UNCHANGED NonCrawlVars

CrawlNext ==
    \/ crawl_start
    \/ crawl_skip
    \/ crawl_finish
    \/ \E ingest \in {"ok", "empty", "fail"} :
         \E an \in (IF ingest = "ok" THEN AnalyticsOutcomes ELSE {NoAnalytics}) :
           \E conn \in (IF CrawlWillExpand(ingest, an)
                         THEN ConnOutcomes ELSE {NoQuery}) :
             crawl_visit(ingest, an, conn)

(***************************************************************************)
(*                       Properties of the crawler                         *)
(***************************************************************************)

\* C19: when ingestion, the pipeline, the scoring or the counterparty query
\* fails for an address, no exception leaves crawl(): the loop goes on to
\* the next entry of the worklist and crawl() returns (status 'completed')
\* only when the loop condition ends it.
CrawlSurvivesFailures ==
    /\ crawl_pc \in {"new", "loop", "done"}
    /\ crawl_pc = "done" => ~LoopGuard
    /\ (crawl_pc = "loop" /\ LoopGuard) => ENABLED CrawlNext

\* A crawl that returned after a failed ingestion and a failed counterparty
\* query, which are failures of two different addresses.
CrawlSurvivesFailuresWitness ==
    /\ crawl_pc = "done"
    /\ {"ingest", "query"} \subseteq crawl_failures
    /\ Cardinality(visited) >= 2

\* C24: for any parameters and any answers of a finite graph, crawl()
\* terminates, and when it has left its loop the worklist is empty or
\* visited holds at least max_addresses addresses.
CrawlTerminates ==
    /\ <>(crawl_pc = "done")
    /\ [](crawl_pc = "done"
           => (to_analyze = << >> \/ Cardinality(visited) >= max_addresses))

\* A crawl that left its loop with entries still on the worklist.
CrawlTerminatesWitness ==
    /\ crawl_pc = "done"
    /\ to_analyze # << >>
    /\ Cardinality(visited) = max_addresses
    /\ conn_queries >= 1

\* C23: a crawl with max_depth = 0 and one seed (max_addresses >= 1) never
\* queries or queues a counterparty, whatever the seed scores and whatever
\* min_risk_score_to_expand is, and ends with exactly one visited address.
CrawlDepthZeroVisitsSeedOnly ==
    (max_depth = 0 /\ Len(seed_addresses) = 1 /\ max_addresses >= 1)
    => /\ conn_queries = 0
       /\ Len(to_analyze) <= 1
       /\ \A i \in 1..Len(to_analyze) : to_analyze[i][2] = 0
       /\ crawl_pc = "done" => Cardinality(visited) = 1

\* Such a crawl has returned, and its seed scored at least
\* min_risk_score_to_expand.
CrawlDepthZeroVisitsSeedOnlyWitness ==
    /\ max_depth = 0 /\ Len(seed_addresses) = 1 /\ max_addresses >= 1
    /\ crawl_pc = "done"
    /\ Cardinality(visited) = 1
    /\ last_visit.score >= min_risk_score_to_expand

\* C26: an analyzed address is in suspicious_addresses exactly when its
\* quick-risk score is >= 40, and its counterparties are queried and queued
\* exactly when, in addition, the score is >= min_risk_score_to_expand and
\* its depth is < max_depth.
CrawlSuspicionAndExpansion ==
    last_visit # NoVisit
    => /\ (\E i \in 1..Len(suspicious_found) :
               suspicious_found[i].address = last_visit.address)
          <=> last_visit.score >= 40
       /\ last_visit.queried
          <=> /\ last_visit.score >= 40
              /\ last_visit.score >= min_risk_score_to_expand
              /\ last_visit.depth < max_depth
       /\ ~last_visit.queried => last_visit.queued = 0

\* An address scoring between min_risk_score_to_expand and 40 was analyzed
\* above max_depth and not expanded, after an address that was.
CrawlSuspicionAndExpansionWitness ==
    /\ last_visit # NoVisit
    /\ last_visit.score >= min_risk_score_to_expand
    /\ last_visit.score < 40
    /\ last_visit.depth < max_depth
    /\ ~last_visit.queried
    /\ conn_queries >= 1

\* C1: in every state of a crawl, for any seed list, any answers of the
\* store and any max_addresses >= 0, the visited set holds at most
\* max_addresses addresses.
CrawlVisitedBound == Cardinality(visited) <= max_addresses

\* The crawl has stopped at the limit with work left on the worklist.
CrawlVisitedBoundWitness ==
    /\ crawl_pc = "done"
    /\ max_addresses >= 1
    /\ Cardinality(visited) = max_addresses
    /\ to_analyze # << >>

\* C2: within one crawl _analyze_address is invoked at most once per
\* canonical (lower-cased) address, however often the address is enqueued.
CrawlAnalyzedAtMostOnce == \A a \in CanonAddrs : analyze_calls[a] <= 1

\* An address that has been analyzed is at the head of the worklist again,
\* enqueued as a counterparty (depth >= 1).
CrawlAnalyzedAtMostOnceWitness ==
    /\ crawl_pc = "loop"
    /\ to_analyze # << >>
    /\ Head(to_analyze)[2] >= 1
    /\ Head(to_analyze)[1] \in visited
    /\ analyze_calls[Lower(Head(to_analyze)[1])] = 1

\* C3: the entries appended while expanding a parent popped at depth d all
\* have depth d + 1, and d + 1 <= max_depth; the worklist never holds an
\* entry deeper than max_depth.
CrawlChildDepth ==
    [][ (crawl_pc = "loop" /\ to_analyze # << >> /\ to_analyze' # to_analyze)
        => LET d == Head(to_analyze)[2]
               kept == Len(to_analyze) - 1
           IN /\ \A i \in 1..Len(to_analyze') :
                    i > kept => /\ to_analyze'[i][2] = d + 1
                                /\ d + 1 <= max_depth
              /\ \A i \in 1..Len(to_analyze') : to_analyze'[i][2] <= max_depth
      ]_vars

\* A child entry at the deepest level allowed is on the worklist.
CrawlChildDepthWitness ==
    /\ max_depth >= 1
    /\ \E i \in 1..Len(to_analyze) : to_analyze[i][2] = max_depth

(***************************************************************************)
(*                              Risk Scorer                                *)
(***************************************************************************)

\* Scores of the Risk Scorer are carried as integers, ScoreScale times the
\* float of the source: every saturation bound of lines 181-185 divides it.
ScoreScale == 300

\* The structural features of an Address node, after coalesce(..., 0.0)
\* (ml_models.py:160-164).  pagerank is counted in units of 0.001.
NoFeatures == [pr |-> 0, degree |-> 0, indeg |-> 0, outdeg |-> 0, triangles |-> 0]

FeatureCases ==
    { NoFeatures,
      [pr |-> 10, degree |-> 100, indeg |-> 60, outdeg |-> 60, triangles |-> 50] }

\* ml_models.py:142-146, times ScoreScale
normalize(x, lo, hi) ==
    IF hi <= lo THEN 0
    ELSE ((Max(lo, Min(hi, x)) - lo) * ScoreScale) \div (hi - lo)

\* A bonus that wraps around instead of saturating.
alerts_bonus_wrapping(alerts) == (alerts * 10) % 50

\* ml_models.py:189: the bonus for the Alerts of the address
alerts_bonus(alerts) == Min(40, alerts * 10)

\* A score left as the sum came out.
clamp_score_none(score) == score

\* ml_models.py:192, times ScoreScale
clamp_score(score) == Max(0, Min(100 * ScoreScale, score))

\* ml_models.py:173-192, times ScoreScale: the score computed from the
\* features and the number of Alerts of the address.
get_address_risk_score(f, alerts) ==
    LET pr_n == normalize(f.pr, 0, 10)
        deg_n == normalize(f.degree, 0, 100)
        indeg_n == normalize(f.indeg, 0, 60)
        outdeg_n == normalize(f.outdeg, 0, 60)
        tri_n == normalize(f.triangles, 0, 50)
        base == 30 * pr_n + 15 * deg_n + 15 * tri_n + 10 * indeg_n + 10 * outdeg_n
        score == base + alerts_bonus(alerts) * ScoreScale
    IN clamp_score(score)

(***************************************************************************)
(*                             AutoExpansion                               *)
(***************************************************************************)

TriggerChoices == {40, 70}
ExpansionDepthChoices == {0, 1, 2}

\* The initial address in either letter case; which address it is makes no
\* difference, the counterparty answers range over all of them.
InitialAddressChoices == {a \in RawAddrs : a[1] = 1}

\* expansion.py:181-197
calculate_risk_score(analytics) ==
    LET part(t, w) ==
            IF analytics[t] = 0 THEN 0 ELSE Min(w * 2, analytics[t] * w)
    IN Min(100, part("structuring", 15) + part("peel_chains", 25)
                + part("mixer_activity", 30) + part("taint", 25)
                + part("circularity", 20))

\* expansion.py:144-179.  ok = FALSE stands for the None result: nothing
\* ingested, or any exception of ingestion, of the pipeline or of the
\* scoring.
full_analysis(address, ingest, an) ==
    IF ingest # "ok" \/ an.raised \/ an.score_raised
    THEN [ok |-> FALSE, risk_score |-> 0, alert_count |-> 0]
    ELSE [ok |-> TRUE, risk_score |-> calculate_risk_score(an.out),
          alert_count |-> AlertCount(an.out)]

\* expansion.py:67: the key under which the initial address is marked.
InitialVisitedKeyAsGiven(address) == address
InitialVisitedKey(address) == Lower(address)

\* expansion.py:98: the depth test of _expand_from_address.
DepthReachedOffByOne(depth) == depth > expansion_depth
DepthReached(depth) == depth >= expansion_depth

\* expansion.py:77 and 134: the test that triggers an expansion.
Triggered(analysis) == analysis.risk_score >= trigger_risk_score

\* expansion.py:113: the test of the loop against the set of marked addresses,
\* one set for the whole recursion (expansion.py:40, 117).
AlreadyExpandedNever(conn_addr) == FALSE
AlreadyExpanded(conn_addr) == conn_addr \in expanded_addresses

NoExpand == [address |-> <<0, "lower">>, risk_score |-> 0, full_score |-> 0]

ExpInit ==
    /\ initial_address \in InitialAddressChoices
    /\ trigger_risk_score \in TriggerChoices
    /\ expansion_depth \in ExpansionDepthChoices
    /\ expanded_addresses = {}
    /\ expansion_map = << >>
    /\ exp_stats = [expansions_triggered |-> 0, total_addresses_analyzed |-> 0,
                    high_risk_found |-> 0]
    /\ initial_analysis = [ok |-> FALSE, risk_score |-> 0, alert_count |-> 0]
    /\ exp_results = << >>
    /\ exp_stack = << >>
    /\ exp_pc = "new"
    /\ store_alerts = [a \in CanonAddrs |-> 0]
    /\ full_calls = [a \in CanonAddrs |-> 0]
    /\ cp_depths = {}
    /\ depth_stops = FALSE
    /\ last_expand = NoExpand

\* AutoExpansion before analyze_with_expansion is called, for the
\* specifications of the other components.
ExpIdle ==
    /\ initial_address = <<1, "lower">>
    /\ trigger_risk_score = 70
    /\ expansion_depth = 2
    /\ expanded_addresses = {}
    /\ expansion_map = << >>
    /\ exp_stats = [expansions_triggered |-> 0, total_addresses_analyzed |-> 0,
                    high_risk_found |-> 0]
    /\ initial_analysis = [ok |-> FALSE, risk_score |-> 0, alert_count |-> 0]
    /\ exp_results = << >>
    /\ exp_stack = << >>
    /\ exp_pc = "new"
    /\ store_alerts = [a \in CanonAddrs |-> 0]
    /\ full_calls = [a \in CanonAddrs |-> 0]
    /\ cp_depths = {}
    /\ depth_stops = FALSE
    /\ last_expand = NoExpand

\* Whether a call _expand_from_address(address, depth) made after `analysis`
\* reaches the counterparty query (expansion.py:77/134, 98, 105).
ExpWillFetch(analysis, depth) ==
    analysis.ok /\ Triggered(analysis) /\ ~DepthReached(depth)

\* The call _expand_from_address(address, depth) up to its loop
\* (expansion.py:98-109), made from a state whose stack is `stack`; conn is
\* the outcome of the counterparty query, f the features the store holds
\* for the address, analysis the analysis that triggered the call and stats
\* the counters at the call.
enter_expansion(address, depth, analysis, conn, f, stack, stats) ==
    IF DepthReached(depth)
    THEN /\ exp_stack' = stack
         /\ exp_pc' = "running"
         /\ depth_stops' = TRUE
         /\ UNCHANGED <<expansion_map, last_expand>>
         /\ exp_stats' = stats
    ELSE IF conn.kind = "fail"
    THEN /\ exp_stack' = << >>
         /\ exp_pc' = "raised"
         /\ UNCHANGED <<expansion_map, last_expand, depth_stops>>
         /\ exp_stats' = stats
    ELSE /\ exp_stack' = Append(stack,
                [address |-> address, depth |-> depth,
                 todo |-> get_connected_addresses(conn.rows)])
         /\ exp_pc' = "running"
         /\ expansion_map' =
                (address :> get_connected_addresses(conn.rows)) @@ expansion_map
         /\ exp_stats' = [stats EXCEPT !.expansions_triggered = @ + 1]
         /\ last_expand' =
                [address |-> address, risk_score |-> analysis.risk_score,
                 full_score |->
                     get_address_risk_score(f, store_alerts'[Lower(address)])]
         /\ UNCHANGED depth_stops

\* analyze_with_expansion up to the first counterparty loop
\* (expansion.py:43-85): the initial address is analyzed as given, marked
\* under its lower-case form, and expanded from depth 0 if it triggers.
exp_start(ingest, an, f, conn) ==
    /\ exp_pc = "new"
    /\ LET analysis == full_analysis(initial_address, ingest, an)
       IN /\ full_calls' = [full_calls EXCEPT ![Lower(initial_address)] = @ + 1]
          /\ store_alerts' = [store_alerts EXCEPT
                 ![Lower(initial_address)] = @ + analysis.alert_count]
          /\ expanded_addresses' =
                 expanded_addresses \cup {InitialVisitedKey(initial_address)}
          /\ initial_analysis' = analysis
          /\ IF analysis.ok /\ Triggered(analysis)
             THEN enter_expansion(initial_address, 0, analysis, conn, f,
                                  << >>, exp_stats)
             ELSE /\ exp_pc' = "running"
                  /\ UNCHANGED <<exp_stack, expansion_map, exp_stats,
                                 last_expand, depth_stops>>
    /\ UNCHANGED <<initial_address, trigger_risk_score, expansion_depth,
                   exp_results, cp_depths>>
    /\ UNCHANGED NonExpVars

\* One turn of the loop of _expand_from_address on a counterparty that is
\* already marked (expansion.py:112-114).
exp_skip ==
    /\ exp_pc = "running"
    /\ exp_stack # << >>
    /\ LET n == Len(exp_stack)
           top == exp_stack[n]
       IN /\ top.todo # << >>
          /\ AlreadyExpanded(Head(top.todo))
          /\ exp_stack' = [exp_stack EXCEPT ![n].todo = Tail(@)]
    /\ UNCHANGED <<initial_address, trigger_risk_score, expansion_depth,
                   expanded_addresses, expansion_map, exp_stats,
                   initial_analysis, exp_results, exp_pc, store_alerts,
                   full_calls, cp_depths, depth_stops, last_expand>>
    /\ UNCHANGED NonExpVars

\* One turn of the loop on an unmarked counterparty (expansion.py:116-139):
\* it is analyzed, marked and counted; a successful analysis is recorded one
\* depth below the expanded address, and a triggering one is expanded in
\* turn.
exp_analyze(ingest, an, f, conn) ==
    /\ exp_pc = "running"
    /\ exp_stack # << >>
    /\ LET n == Len(exp_stack)
           top == exp_stack[n]
           conn_addr == Head(top.todo)
           analysis == full_analysis(conn_addr, ingest, an)
           rest == [exp_stack EXCEPT ![n].todo = Tail(@)]
       IN /\ top.todo # << >>
          /\ ~AlreadyExpanded(conn_addr)
          /\ full_calls' = [full_calls EXCEPT ![Lower(conn_addr)] = @ + 1]
          /\ store_alerts' = [store_alerts EXCEPT
                 ![Lower(conn_addr)] = @ + analysis.alert_count]
          /\ expanded_addresses' = expanded_addresses \cup {conn_addr}
          /\ cp_depths' = cp_depths \cup {top.depth + 1}
          /\ IF ~analysis.ok
             THEN /\ exp_stack' = rest
                  /\ exp_stats' = [exp_stats EXCEPT
                         !.total_addresses_analyzed = @ + 1]
                  /\ UNCHANGED <<exp_results, exp_pc, expansion_map,
                                 last_expand, depth_stops>>
             ELSE /\ exp_results' = Append(exp_results,
                         [address |-> conn_addr, parent_address |-> top.address,
                          depth |-> top.depth + 1,
                          risk_score |-> analysis.risk_score])
                  /\ IF Triggered(analysis)
                     THEN enter_expansion(conn_addr, top.depth + 1, analysis,
                              conn, f, rest,
                              [exp_stats EXCEPT
                                  !.total_addresses_analyzed = @ + 1,
                                  !.high_risk_found = @ + 1])
                     ELSE /\ exp_stack' = rest
                          /\ exp_stats' = [exp_stats EXCEPT
                                 !.total_addresses_analyzed = @ + 1]
                          /\ UNCHANGED <<exp_pc, expansion_map, last_expand,
                                         depth_stops>>
    /\ UNCHANGED <<initial_address, trigger_risk_score, expansion_depth,
                   initial_analysis>>
    /\ UNCHANGED NonExpVars

\* The loop of the innermost _expand_from_address call is over
\* (expansion.py:141-142); the outermost return ends analyze_with_expansion
\* (expansion.py:81-85).
exp_return ==
    /\ exp_pc = "running"
    /\ \/ /\ exp_stack = << >>
          /\ exp_pc' = "done"
          /\ UNCHANGED exp_stack
       \/ /\ exp_stack # << >>
          /\ exp_stack[Len(exp_stack)].todo = << >>
          /\ exp_stack' = SubSeq(exp_stack, 1, Len(exp_stack) - 1)
          /\ UNCHANGED exp_pc
    /\ UNCHANGED <<initial_address, trigger_risk_score, expansion_depth,
                   expanded_addresses, expansion_map, exp_stats,
                   initial_analysis, exp_results, store_alerts, full_calls,
                   cp_depths, depth_stops, last_expand>>
    /\ UNCHANGED NonExpVars

\* The depth of the _expand_from_address call the next analysis may make.
NextCallDepth ==
    IF exp_stack = << >> THEN 0 ELSE exp_stack[Len(exp_stack)].depth + 1

\* The inputs of one analysis: what ingestion and the pipeline do and, where
\* the analysis leads to them, the features the store holds and the outcome
\* of the counterparty query.
ExpPipelineInputs(ingest) ==
    IF ingest = "ok" THEN AnalyticsOutcomes ELSE {NoAnalytics}

ExpFeatureInputs(ingest, an) ==
    IF ExpWillFetch(full_analysis(initial_address, ingest, an), NextCallDepth)
    THEN FeatureCases ELSE {NoFeatures}

ExpConnInputs(ingest, an) ==
    IF ExpWillFetch(full_analysis(initial_address, ingest, an), NextCallDepth)
    THEN ConnOutcomes ELSE {NoQuery}

ExpNext ==
    \/ exp_skip
    \/ exp_return
    \/ \E ingest \in {"ok", "empty", "fail"} :
       \E an \in ExpPipelineInputs(ingest) :
       \E f \in ExpFeatureInputs(ingest, an) :
       \E conn \in ExpConnInputs(ingest, an) :
           exp_analyze(ingest, an, f, conn)
    \/ \E ingest \in {"ok", "empty", "fail"} :
       \E an \in ExpPipelineInputs(ingest) :
       \E f \in ExpFeatureInputs(ingest, an) :
       \E conn \in ExpConnInputs(ingest, an) :
           exp_start(ingest, an, f, conn)

(***************************************************************************)
(*                      Properties of the expansion                        *)
(***************************************************************************)

\* C4: an address is expanded (its counterparties are fetched for analysis
\* by _expand_from_address) only if the Risk Scorer's score of that address,
\* get_address_risk_score over its features and its alerts, is at least
\* trigger_risk_score.  The code tests the alert-type score of
\* _calculate_risk_score instead, so this does not hold.
ExpandsOnlyOnFullScore ==
    last_expand # NoExpand
        => last_expand.full_score >= trigger_risk_score * ScoreScale

\* C5: every counterparty is analyzed, and every analysis recorded, at a
\* depth between 1 and expansion_depth, and no _expand_from_address call of
\* depth expansion_depth or more gets to its counterparty loop.
ExpansionDepthLimit ==
    /\ \A d \in cp_depths : 1 <= d /\ d <= expansion_depth
    /\ \A i \in DOMAIN exp_results :
           1 <= exp_results[i].depth /\ exp_results[i].depth <= expansion_depth
    /\ \A i \in DOMAIN exp_stack : exp_stack[i].depth < expansion_depth
    /\ expansion_depth = 0 => exp_stats.total_addresses_analyzed = 0

\* A run that recorded a counterparty at the deepest allowed depth and was
\* stopped by the depth test when it tried to expand further.
ExpansionDepthLimitWitness ==
    /\ exp_pc = "done"
    /\ expansion_depth >= 1
    /\ depth_stops
    /\ \E i \in DOMAIN exp_results :
           /\ exp_results[i].depth = expansion_depth
           /\ exp_results[i].risk_score >= trigger_risk_score

\* C6: within one analyze_with_expansion call _full_analysis is invoked at
\* most once per canonical (lower-cased) address, the initial address
\* included whatever its letter case.
FullAnalysisAtMostOnce == \A a \in CanonAddrs : full_calls[a] <= 1

\* A finished run whose initial address was given in mixed case, came back
\* as a counterparty of an expanded address, and was not analyzed again.
FullAnalysisAtMostOnceWitness ==
    /\ exp_pc = "done"
    /\ initial_address[2] = "mixed"
    /\ full_calls[Lower(initial_address)] = 1
    /\ \E a \in CanonAddrs : a # Lower(initial_address) /\ full_calls[a] = 1
    /\ \E k \in DOMAIN expansion_map :
           /\ k # initial_address
           /\ \E i \in DOMAIN expansion_map[k] :
                  expansion_map[k][i] = Lower(initial_address)

\* C20: a failure inside one branch of the expansion (the analysis of a
\* counterparty, or the counterparty query of a counterparty that is
\* expanded in turn) is isolated: the remaining counterparties are still
\* analyzed and analyze_with_expansion returns normally, so a call that has
\* analyzed a counterparty never ends by an exception.
ExpansionIsolatesFailures == cp_depths # {} => exp_pc # "raised"

\* The number of _full_analysis calls made so far.
TotalFullCalls ==
    LET RECURSIVE Sum(_)
        Sum(S) == IF S = {} THEN 0
                  ELSE LET a == CHOOSE x \in S : TRUE
                       IN full_calls[a] + Sum(S \ {a})
    IN Sum(CanonAddrs)

\* C25: analyze_with_expansion terminates (it returns, or an exception
\* leaves it) on every graph, cyclic ones included, for every
\* trigger_risk_score and expansion_depth: the recursion is never deeper than
\* expansion_depth, and because the set of marked addresses is shared by the
\* whole recursion no more analyses are made than the graph has addresses.
ExpansionTerminates ==
    /\ <>(exp_pc \in {"done", "raised"})
    /\ [](Len(exp_stack) <= expansion_depth)
    /\ [](TotalFullCalls <= NumAddr)

\* A finished run over a cycle: two addresses that are counterparties of
\* each other were both expanded.
ExpansionTerminatesWitness ==
    /\ exp_pc = "done"
    /\ \E a \in DOMAIN expansion_map : \E b \in DOMAIN expansion_map :
           /\ Lower(a) # Lower(b)
           /\ \E i \in DOMAIN expansion_map[a] : expansion_map[a][i] = Lower(b)
           /\ \E i \in DOMAIN expansion_map[b] : expansion_map[b][i] = Lower(a)

(***************************************************************************)
(*              A crawler job run by its background thread                 *)
(***************************************************************************)

\* start_crawler_job(run_async=True) (automation.py:49-76): the one job whose
\* crawl the crawler variables describe.
start_crawler_thread ==
    /\ active_jobs = << >>
    /\ start_job("crawler", "async")

\* The thread is inside run_crawler (automation.py:198, crawler.py:194-222).
CrawlerThreadRuns ==
    \E id \in DOMAIN pc : pc[id] = "run" /\ active_jobs[id].type = "crawler"

\* The steps of crawl() as the thread takes them.  Nothing in crawl(), in
\* run_crawler or in _run_crawler_thread reads the job record.
thread_crawl_start == CrawlerThreadRuns /\ crawl_start
thread_crawl_skip == CrawlerThreadRuns /\ crawl_skip
thread_crawl_visit(ingest, an, conn) ==
    CrawlerThreadRuns /\ crawl_visit(ingest, an, conn)
thread_crawl_finish == CrawlerThreadRuns /\ crawl_finish

\* crawl() has returned: run_crawler returns its result to the thread.
thread_crawl_returns(id) ==
    /\ crawl_pc = "done"
    /\ controller_returns(id)

JobCrawlNext ==
    \/ start_crawler_thread
    \/ thread_crawl_start
    \/ thread_crawl_skip
    \/ \E ingest \in {"ok", "empty", "fail"} :
       \E an \in (IF ingest = "ok" THEN AnalyticsOutcomes ELSE {NoAnalytics}) :
       \E conn \in (IF CrawlWillExpand(ingest, an)
                    THEN ConnOutcomes ELSE {NoQuery}) :
           thread_crawl_visit(ingest, an, conn)
    \/ thread_crawl_finish
    \/ \E id \in JobIds : thread_crawl_returns(id)
    \/ \E id \in JobIds : write_result(id)
    \/ \E id \in JobIds : write_status(id)
    \/ \E id \in JobIds : write_completed_at(id)
    \/ \E id \in JobIds : cancel_check(id)
    \/ cancel_set_status
    \/ cancel_set_result

\* C12: after a running job has been marked cancelled its background unit
\* stops at the next address boundary: beyond the analysis that was in
\* flight when the status was written, the crawl visits no further address.
\* crawl() never looks at the job record, so it goes on to the end.
CancelStopsCrawl ==
    \A id \in DOMAIN visited_at_cancel :
        Cardinality(visited) <= visited_at_cancel[id] + 1

(***************************************************************************)
(*                       Ingestion (core.py)                               *)
(***************************************************************************)

NumTx == 2
MaxIngests == 2

\* The explorer's ledger: each hash is one transaction, with its sender, its
\* recipient (empty for a contract creation) and its value.
TxValues == {1, 2}
NoAddr == <<0, "lower">>
ChainTxs == [from : CanonAddrs, to : CanonAddrs \cup {NoAddr}, value : TxValues]
Ledgers == [1..NumTx -> ChainTxs]

\* The limit argument: 0 stands for None (core.py:111-112).
LimitChoices == {0, 1}

\* core.py:52-80: the transactions the address sent or received, ascending.
get_txlist(address) ==
    LET RECURSIVE List(_)
        List(h) ==
            IF h > NumTx THEN << >>
            ELSE IF chain[h].from = address \/ chain[h].to = address
                 THEN <<h>> \o List(h + 1)
                 ELSE List(h + 1)
    IN List(1)

\* core.py:111-112
truncate(raw, limit) ==
    IF limit = 0 THEN raw ELSE SubSeq(raw, 1, Min(limit, Len(raw)))

\* core.py:83-103: rows without a recipient are dropped.
prepare_tx_rows(raw) == SelectSeq(raw, LAMBDA h : chain[h].to # NoAddr)

\* core.py:131-136: the Transaction node and the TRANSFER edge of one row.
\* The node is created once per hash; the edge is incremented for every row.
merge_row(store, h) ==
    LET key == <<chain[h].from, chain[h].to>>
    IN [transactions |->
            IF h \in DOMAIN store.transactions THEN store.transactions
            ELSE (h :> chain[h]) @@ store.transactions,
        transfers |->
            IF key \in DOMAIN store.transfers
            THEN [store.transfers EXCEPT
                     ![key] = [count |-> @.count + 1,
                               value_sum |-> @.value_sum + chain[h].value]]
            ELSE (key :> [count |-> 1, value_sum |-> chain[h].value])
                     @@ store.transfers]

\* core.py:119-140: UNWIND $txs, in one write transaction.
merge_rows(store, rows) ==
    LET RECURSIVE Fold(_, _)
        Fold(st, i) == IF i > Len(rows) THEN st
                       ELSE Fold(merge_row(st, rows[i]), i + 1)
    IN Fold(store, 1)

IngestInit ==
    /\ chain \in Ledgers
    /\ transactions = << >>
    /\ transfers = << >>
    /\ ingest_calls = 0
    /\ ingest_ret = 0

\* The store before any ingestion, for the specifications of the other
\* components.
IngestIdle ==
    /\ chain = [h \in 1..NumTx |-> [from |-> <<1, "lower">>, to |-> NoAddr,
                                    value |-> 1]]
    /\ transactions = << >>
    /\ transfers = << >>
    /\ ingest_calls = 0
    /\ ingest_ret = 0

\* core.py:106-142
ingest_address(address, limit) ==
    /\ ingest_calls < MaxIngests
    /\ ingest_calls' = ingest_calls + 1
    /\ LET rows == prepare_tx_rows(truncate(get_txlist(address), limit))
           store == merge_rows([transactions |-> transactions,
                                transfers |-> transfers], rows)
       IN /\ transactions' = store.transactions
          /\ transfers' = store.transfers
          /\ ingest_ret' = Len(rows)
    /\ UNCHANGED chain
    /\ UNCHANGED NonIngestVars

\* core.py:109: the explorer request fails and ingest_address raises before
\* it writes anything.
ingest_raises(address) ==
    /\ ingest_calls < MaxIngests
    /\ ingest_calls' = ingest_calls + 1
    /\ ingest_ret' = -1
    /\ UNCHANGED <<chain, transactions, transfers>>
    /\ UNCHANGED NonIngestVars

IngestNext ==
    \/ \E address \in CanonAddrs, limit \in LimitChoices :
           ingest_address(address, limit)
    \/ \E address \in CanonAddrs : ingest_raises(address)

\* The stored transactions of one ordered pair, their number and their sum.
StoredBetween(key) ==
    {h \in DOMAIN transactions :
        transactions[h].from = key[1] /\ transactions[h].to = key[2]}

SumValues(hs) ==
    LET RECURSIVE Sum(_)
        Sum(S) == IF S = {} THEN 0
                  ELSE LET h == CHOOSE x \in S : TRUE
                       IN transactions[h].value + Sum(S \ {h})
    IN Sum(hs)

\* C13: after any sequence of ingest_address calls, the TRANSFER edge of
\* every ordered pair counts the stored transactions of the pair and sums
\* their values.  The edge is incremented for every ingested row, also when
\* the row's Transaction is already stored, so this fails on the second
\* ingestion of a transaction.
TransferAggregatesExact ==
    \A key \in DOMAIN transfers :
        /\ transfers[key].count = Cardinality(StoredBetween(key))
        /\ transfers[key].value_sum = SumValues(StoredBetween(key))

(***************************************************************************)
(*            Detection Pipeline (aml_analytics.py) and /analyze           *)
(***************************************************************************)

MaxRuns == 2

\* The values time.time() * 1000 can take in _create_alert: a wall clock,
\* which two calls can read alike.
NowChoices == {1, 2}

\* What the queries of the ten detectors measure for an address, and the
\* structural features of its node.  Times are in seconds, values in ETH.
NoEvidence ==
    [small_deposits |-> 0, small_total_over_one |-> FALSE, peel_paths |-> 0,
     fanin |-> 0, fanout |-> 0, taint_hops |-> 0, cycles |-> 0,
     tx_count_day |-> 0, txs_per_hour |-> 0,
     dormant |-> FALSE, recent_value |-> 0, round_tx_count |-> 0,
     timing_regular |-> FALSE, avg_interval |-> 0, total_roundtrips |-> 0,
     features |-> NoFeatures]

EvidenceCases ==
    { NoEvidence,
      [NoEvidence EXCEPT !.small_deposits = 5, !.small_total_over_one = TRUE,
                         !.cycles = 1],
      [small_deposits |-> 25, small_total_over_one |-> TRUE, peel_paths |-> 7,
       fanin |-> 20, fanout |-> 3, taint_hops |-> 1, cycles |-> 3,
       tx_count_day |-> 100, txs_per_hour |-> 50,
       dormant |-> TRUE, recent_value |-> 10, round_tx_count |-> 20,
       timing_regular |-> TRUE, avg_interval |-> 3600,
       total_roundtrips |-> 20,
       features |-> [pr |-> 10, degree |-> 100, indeg |-> 60, outdeg |-> 60,
                     triangles |-> 50]] }

NoRow == [fires |-> FALSE, type |-> "NONE", score |-> 0, details |-> 0]

\* aml_analytics.py:32-59
detect_structuring(ev) ==
    IF ev.small_deposits >= 5
    THEN [fires |-> TRUE, type |-> "STRUCTURING",
          score |-> (ev.small_deposits * 20) \div 5
                    + (IF ev.small_total_over_one THEN 10 ELSE 0),
          details |-> 3]
    ELSE NoRow

\* aml_analytics.py:62-81
detect_peel_chains(ev) ==
    IF ev.peel_paths >= 1
    THEN [fires |-> TRUE, type |-> "PEEL_CHAIN",
          score |-> 40 + ev.peel_paths * 10, details |-> 7]
    ELSE NoRow

\* aml_analytics.py:84-113
find_mixer_activity(ev) ==
    LET score == IF ev.fanin >= 20 \/ ev.fanout >= 20 THEN 60
                 ELSE IF ev.fanin >= 10 \/ ev.fanout >= 10 THEN 40
                 ELSE 0
    IN IF score > 0
       THEN [fires |-> TRUE, type |-> "MIXER_PATTERN", score |-> score,
             details |-> ev.fanin + ev.fanout]
       ELSE NoRow

\* aml_analytics.py:116-138
run_taint_analysis(ev) ==
    LET score == Max(0, IF ev.taint_hops = 0 THEN 0
                        ELSE 50 - 10 * (ev.taint_hops - 1))
    IN IF score > 0
       THEN [fires |-> TRUE, type |-> "TAINT", score |-> score, details |-> 3]
       ELSE NoRow

\* aml_analytics.py:141-160
find_circular_txns(ev) ==
    LET score == IF ev.cycles >= 3 THEN 50
                 ELSE IF ev.cycles = 2 THEN 35
                 ELSE IF ev.cycles = 1 THEN 20
                 ELSE 0
    IN IF score > 0
       THEN [fires |-> TRUE, type |-> "CIRCULARITY", score |-> score,
             details |-> ev.cycles]
       ELSE NoRow

\* aml_analytics.py:163-213
detect_velocity_alert(ev) ==
    IF ev.tx_count_day >= 10 /\ ev.txs_per_hour >= 10
    THEN [fires |-> TRUE, type |-> "VELOCITY_ALERT",
          score |-> IF ev.txs_per_hour >= 50 THEN 70
                    ELSE IF ev.txs_per_hour >= 30 THEN 55
                    ELSE IF ev.txs_per_hour >= 10 THEN 40
                    ELSE 30,
          details |-> ev.tx_count_day]
    ELSE NoRow

\* aml_analytics.py:216-266
detect_dormant_reactivation(ev) ==
    IF ev.dormant /\ ev.recent_value >= 1
    THEN [fires |-> TRUE, type |-> "DORMANT_REACTIVATION",
          score |-> IF ev.recent_value >= 10 THEN 65
                    ELSE IF ev.recent_value >= 5 THEN 50
                    ELSE 35,
          details |-> ev.recent_value]
    ELSE NoRow

\* aml_analytics.py:269-311
detect_round_amounts(ev) ==
    IF ev.round_tx_count >= 5
    THEN [fires |-> TRUE, type |-> "ROUND_AMOUNTS",
          score |-> IF ev.round_tx_count >= 20 THEN 50
                    ELSE IF ev.round_tx_count >= 10 THEN 35
                    ELSE 25,
          details |-> ev.round_tx_count]
    ELSE NoRow

\* aml_analytics.py:314-365
detect_timing_patterns(ev) ==
    IF ev.timing_regular /\ ev.avg_interval < 24 * 3600
    THEN [fires |-> TRUE, type |-> "TIMING_PATTERN",
          score |-> IF ev.avg_interval <= 3600 THEN 55
                    ELSE IF ev.avg_interval <= 7200 THEN 45
                    ELSE 35,
          details |-> ev.avg_interval]
    ELSE NoRow

\* aml_analytics.py:368-412
detect_wash_trading(ev) ==
    IF ev.total_roundtrips >= 6
    THEN [fires |-> TRUE, type |-> "WASH_TRADING",
          score |-> IF ev.total_roundtrips >= 20 THEN 70
                    ELSE IF ev.total_roundtrips >= 10 THEN 55
                    ELSE 40,
          details |-> ev.total_roundtrips]
    ELSE NoRow

\* aml_analytics.py:415-434: the rows of the ten detectors, in call order.
DetectorRows(ev) ==
    << detect_structuring(ev), detect_peel_chains(ev), find_mixer_activity(ev),
       run_taint_analysis(ev), find_circular_txns(ev),
       detect_velocity_alert(ev), detect_dormant_reactivation(ev),
       detect_round_amounts(ev), detect_timing_patterns(ev),
       detect_wash_trading(ev) >>

\* aml_analytics.py:9-29: MERGE on the id; created_at is set on creation
\* only, type, score and details are set on every call.
create_alert(store, address, row, now) ==
    LET id == <<row.type, address, now>>
    IN IF id \in DOMAIN store
       THEN [store EXCEPT ![id] = [type |-> row.type, score |-> row.score,
                                   details |-> row.details,
                                   created_at |-> @.created_at]]
       ELSE (id :> [type |-> row.type, score |-> row.score,
                    details |-> row.details, created_at |-> now]) @@ store

\* aml_analytics.py:415-434: the Alert nodes after one run for the address.
run_all_analytics(store, address, now) ==
    LET rows == DetectorRows(evidence[address])
        RECURSIVE Fold(_, _)
        Fold(st, i) ==
            IF i > Len(rows) THEN st
            ELSE Fold(IF rows[i].fires
                      THEN create_alert(st, address, rows[i], now) ELSE st,
                      i + 1)
    IN Fold(store, 1)

\* aml_analytics.py:419-434: how a run ends in which the query of detector
\* number `failing` raises (0: none does).  The ten calls are plain
\* statements of one function body: the exception leaves run_all_analytics
\* at the failing call, after the detectors before it and before the others.
NumDetectors == Len(DetectorRows(NoEvidence))
NoRun == [kind |-> "none", failing |-> 0, detectors |-> 0]
run_all_analytics_outcome(failing) ==
    IF failing = 0
    THEN [kind |-> "returned", failing |-> 0, detectors |-> NumDetectors]
    ELSE [kind |-> "raised", failing |-> failing, detectors |-> failing - 1]

\* ml_models.py:157-159: the Alerts attached to the address.
AlertsFor(store, address) == {id \in DOMAIN store : id[2] = address}

PipelineInit ==
    /\ evidence \in [CanonAddrs -> EvidenceCases]
    /\ alert_nodes = << >>
    /\ node_risk_score = [a \in CanonAddrs |-> -1]
    /\ pipeline_runs = 0
    /\ analyze_scores = [a \in CanonAddrs |-> {}]
    /\ pipeline_ret = NoRun

\* The store before any pipeline run, for the specifications of the other
\* components.
PipelineIdle ==
    /\ evidence = [a \in CanonAddrs |-> NoEvidence]
    /\ alert_nodes = << >>
    /\ node_risk_score = [a \in CanonAddrs |-> -1]
    /\ pipeline_runs = 0
    /\ analyze_scores = [a \in CanonAddrs |-> {}]
    /\ pipeline_ret = NoRun

\* One pipeline run in its write transaction, as the crawler and the
\* expansion make it (crawler.py:119-120, expansion.py:162-163).
pipeline_run(address, now) ==
    /\ pipeline_runs < MaxRuns
    /\ pipeline_runs' = pipeline_runs + 1
    /\ alert_nodes' = run_all_analytics(alert_nodes, address, now)
    /\ pipeline_ret' = run_all_analytics_outcome(0)
    /\ UNCHANGED <<evidence, node_risk_score, analyze_scores>>
    /\ UNCHANGED NonPipelineVars

\* One pipeline run in which the query of detector number `failing` raises:
\* the exception leaves run_all_analytics and the write transaction it runs
\* in (crawler.py:119-120, expansion.py:162-163, api.py:55-56), which is
\* rolled back with the Alerts of the detectors that had run.
pipeline_run_raises(address, failing) ==
    /\ pipeline_runs < MaxRuns
    /\ pipeline_runs' = pipeline_runs + 1
    /\ pipeline_ret' = run_all_analytics_outcome(failing)
    /\ UNCHANGED <<evidence, alert_nodes, node_risk_score, analyze_scores>>
    /\ UNCHANGED NonPipelineVars

\* api.py:50-70: POST /analyze/{address}: the pipeline, then the Risk Scorer
\* on the features and the Alerts of the address.
analyze(address, now) ==
    /\ pipeline_runs < MaxRuns
    /\ pipeline_runs' = pipeline_runs + 1
    /\ alert_nodes' = run_all_analytics(alert_nodes, address, now)
    /\ LET score == get_address_risk_score(
                        evidence[address].features,
                        Cardinality(AlertsFor(alert_nodes', address)))
       IN /\ node_risk_score' = [node_risk_score EXCEPT ![address] = score]
          /\ analyze_scores' = [analyze_scores EXCEPT ![address] = @ \cup {score}]
    /\ pipeline_ret' = run_all_analytics_outcome(0)
    /\ UNCHANGED evidence
    /\ UNCHANGED NonPipelineVars

\* The graph around an address changes (an ingestion, a feature run).
graph_changes(address, ev) ==
    /\ ev # evidence[address]
    /\ evidence' = [evidence EXCEPT ![address] = ev]
    /\ analyze_scores' = [analyze_scores EXCEPT ![address] = {}]
    /\ UNCHANGED <<alert_nodes, node_risk_score, pipeline_runs, pipeline_ret>>
    /\ UNCHANGED NonPipelineVars

PipelineNext ==
    \/ \E address \in CanonAddrs, now \in NowChoices : pipeline_run(address, now)
    \/ \E address \in CanonAddrs, failing \in 1..NumDetectors :
           pipeline_run_raises(address, failing)
    \/ \E address \in CanonAddrs, now \in NowChoices : analyze(address, now)
    \/ \E address \in CanonAddrs, ev \in EvidenceCases : graph_changes(address, ev)

\* C21: when the query of one detector raises inside run_all_analytics, that
\* detector alone is skipped: the other nine run and the call returns their
\* result map.  The function has no handler, so the call ends by exception
\* at the failing detector.
DetectorFailureIsolated ==
    pipeline_ret.failing # 0
    => /\ pipeline_ret.kind = "returned"
       /\ pipeline_ret.detectors = NumDetectors - 1

\* C14: on an unchanged graph, the pipeline followed by the Risk Scorer
\* gives the same risk score for an address every time it is run.  Every run
\* adds Alerts for the same evidence and the scorer counts them, so the
\* second score is higher.
AnalyzeIdempotent ==
    \A a \in CanonAddrs : Cardinality(analyze_scores[a]) <= 1

\* C15: an Alert, once created, keeps its type, score, details and
\* created_at: later pipeline runs only add Alerts.  _create_alert sets
\* type, score and details on every MERGE of the same id, so a run that
\* reads the same clock value for the same address rewrites the Alert.
AlertsImmutable ==
    [][ \A id \in DOMAIN alert_nodes :
            id \in DOMAIN alert_nodes' /\ alert_nodes'[id] = alert_nodes[id]
      ]_vars

\* C16: every Alert score lies in [0,100], whatever the detectors' queries
\* count, and an address without history gets no Alert.  The structuring
\* and peel-chain scores grow with the counts without a cap.
AlertScoresInRange ==
    /\ \A id \in DOMAIN alert_nodes :
           0 <= alert_nodes[id].score /\ alert_nodes[id].score <= 100
    /\ \A a \in CanonAddrs :
           evidence[a] = NoEvidence
               => \A i \in DOMAIN DetectorRows(evidence[a]) :
                      ~DetectorRows(evidence[a])[i].fires

(***************************************************************************)
(*        The Risk Scorer over every feature value and alert count         *)
(***************************************************************************)

MaxAlerts == 5

\* What a feature property of an Address node may hold, per feature: a
\* negative value, zero (also what coalesce makes of an absent property,
\* ml_models.py:160-164), a value inside the range and one above the
\* saturation bound of lines 181-185.
PagerankValues == {-5, 0, 5, 20}
DegreeValues == {-5, 0, 50, 200}
InOutDegreeValues == {-5, 0, 30, 90}
TriangleValues == {-5, 0, 25, 75}

StoredFeatures ==
    [pr : PagerankValues, degree : DegreeValues, indeg : InOutDegreeValues,
     outdeg : InOutDegreeValues, triangles : TriangleValues]

NoCall == [alerts |-> -1, score |-> -1, found |-> FALSE]

ScorerInit ==
    /\ sc_node \in BOOLEAN
    /\ sc_features \in StoredFeatures
    /\ ~sc_node => sc_features = NoFeatures
    /\ sc_alerts = 0
    /\ sc_written = -1
    /\ sc_prev = NoCall
    /\ sc_last = NoCall

ScorerIdle ==
    /\ sc_node = FALSE
    /\ sc_features = NoFeatures
    /\ sc_alerts = 0
    /\ sc_written = -1
    /\ sc_prev = NoCall
    /\ sc_last = NoCall

\* ml_models.py:149-203: one call.  Without a row for the address the call
\* returns 0.0 and writes nothing (lines 170-171); otherwise it writes the
\* score to the node (lines 195-202) and returns it (line 203).
score_address ==
    /\ LET score == IF sc_node
                    THEN get_address_risk_score(sc_features, sc_alerts)
                    ELSE 0
       IN /\ sc_prev' = sc_last
          /\ sc_last' = [alerts |-> sc_alerts, score |-> score, found |-> sc_node]
          /\ sc_written' = IF sc_node THEN score ELSE sc_written
    /\ UNCHANGED <<sc_node, sc_features, sc_alerts>>
    /\ UNCHANGED NonScorerVars

\* aml_analytics.py:9-29: a detector attaches one more Alert to the address;
\* the MERGE of line 13 creates the Address node if it is missing.
alert_attached ==
    /\ sc_alerts < MaxAlerts
    /\ sc_alerts' = sc_alerts + 1
    /\ sc_node' = TRUE
    /\ UNCHANGED <<sc_features, sc_written, sc_prev, sc_last>>
    /\ UNCHANGED NonScorerVars

ScorerNext == score_address \/ alert_attached

\* C17: whatever the stored feature values (absent, zero, negative, above
\* the saturation bounds) and whatever the number of Alerts, the score
\* get_address_risk_score returns lies in [0, 100], and the risk_score it
\* writes to the node is the value it returns.
ScoreInRangeAndStored ==
    sc_last # NoCall
    => /\ sc_last.score >= 0
       /\ sc_last.score <= 100 * ScoreScale
       /\ sc_last.found => sc_written = sc_last.score

\* A call on a node with a negative and an over-saturated feature and at
\* least four Alerts, whose score was written to the node.
ScoreInRangeAndStoredWitness ==
    /\ sc_last.found
    /\ sc_features.pr < 0
    /\ sc_features.triangles > 50
    /\ sc_last.alerts >= 4
    /\ sc_written = sc_last.score
    /\ sc_last.score > 0

\* C18: with the features unchanged, a call made with more Alerts attached
\* never returns less than the call before it; in particular the score
\* with n+1 Alerts is at least the score with n.
ScoreMonotoneInAlerts ==
    (sc_prev # NoCall /\ sc_last.alerts >= sc_prev.alerts)
    => sc_last.score >= sc_prev.score

\* Two consecutive calls, the second with exactly one more Alert.
ScoreMonotoneInAlertsWitness ==
    /\ sc_prev # NoCall
    /\ sc_prev.alerts >= 1
    /\ sc_last.alerts = sc_prev.alerts + 1
    /\ sc_last.score > sc_prev.score

(***************************************************************************)
(*                          BlockchainMonitor                              *)
(***************************************************************************)

\* Time is counted in units of 60 seconds, the sleep after a failed check
\* (monitor.py:78).  HourUnits is the number of units in an hour, scaled down.
HourUnits == 3
RetrySleep == 1

\* How many ticks can see new blocks, large transactions or failures.
MaxEvents == 2

\* monitor.py:121: the look-back of the first check
Lookback == 6500

\* monitor.py:154: the block number used when the store gives none
FallbackBlock == 19000000

\* duration_hours: None (0 here) or one hour.
DurationChoices == {0, 1}

\* The clock is followed up to the latest value a call can bring it to (less
\* than an end_time of one hour, plus one interval), and the counters up to
\* one more than the checks that fit before it: beyond these values nothing
\* the monitor does depends on them.
ClockHorizon == 2 * HourUnits
CountCap == ClockHorizon + 1
IntervalChoices == {1, HourUnits}

\* The highest stored block a tick can find (it never decreases).
BlockChoices == {0, 10, 7000, 7010}

\* What a scan can return: the endpoints of the large transactions found.
LargeTxLists == SeqsOfLengths([from : CanonAddrs, to : CanonAddrs], {0, 1})

MonitorInit ==
    /\ duration_hours \in DurationChoices
    /\ check_interval \in IntervalChoices
    /\ mon_clock = 0
    /\ end_time = -1
    /\ mon_pc = "new"
    /\ last_check_block = -1
    /\ monitored_addresses = {}
    /\ checks_completed = 0
    /\ db_block = -1
    /\ events_left = MaxEvents
    /\ check_calls = 0
    /\ scan_ranges = << >>
    /\ first_start = -1
    /\ observed_block = -1
    /\ analysis_attempts = [a \in CanonAddrs |-> 0]

\* The monitor before start_monitor is called, for the specifications of
\* the other components.
MonitorIdle ==
    /\ duration_hours = 0
    /\ check_interval = HourUnits
    /\ mon_clock = 0
    /\ end_time = -1
    /\ mon_pc = "new"
    /\ last_check_block = -1
    /\ monitored_addresses = {}
    /\ checks_completed = 0
    /\ db_block = -1
    /\ events_left = MaxEvents
    /\ check_calls = 0
    /\ scan_ranges = << >>
    /\ first_start = -1
    /\ observed_block = -1
    /\ analysis_attempts = [a \in CanonAddrs |-> 0]

\* monitor.py:140-154: the highest stored block, or the fallback when the
\* store holds no Transaction or the read raises.
get_current_block(block, lookup) ==
    IF lookup = "ok" /\ block >= 0 THEN block ELSE FallbackBlock

\* monitor.py:117: `if self.last_check_block:` (None and 0 alike are false)
HasLastCheck == last_check_block # -1 /\ last_check_block # 0

\* monitor.py:117-121
StartBlock(current_block) ==
    IF HasLastCheck THEN last_check_block + 1
    ELSE Max(0, current_block - Lookback)

\* monitor.py:236-237: a failed analysis is logged; the address is not added
\* to monitored_addresses (line 233 was not reached).
AfterFailedAnalysis(monitored, address) == monitored

\* monitor.py:135-136, 210-237: the endpoints of the transactions in order,
\* each analyzed unless it is in monitored_addresses; `fails` are the
\* addresses whose analysis raises.  st = [monitored, attempts].
analyze_transaction_addresses(txs, fails, monitored, attempts) ==
    LET endpoints == [i \in 1..(2 * Len(txs)) |->
                         IF i % 2 = 1 THEN txs[(i + 1) \div 2].from
                         ELSE txs[i \div 2].to]
        RECURSIVE Fold(_, _)
        Fold(st, i) ==
            IF i > Len(endpoints) THEN st
            ELSE LET address == endpoints[i]
                 IN IF address \in st.monitored THEN Fold(st, i + 1)
                    ELSE Fold([monitored |->
                                   IF address \in fails
                                   THEN AfterFailedAnalysis(st.monitored, address)
                                   ELSE st.monitored \cup {address},
                               attempts |->
                                   [st.attempts EXCEPT ![address] = @ + 1]],
                              i + 1)
    IN Fold([monitored |-> monitored, attempts |-> attempts], 1)

\* monitor.py:101-138: one _check_recent_activity call.  block is the highest
\* stored block at the call, lookup and scan say whether the two reads
\* succeed, txs is what the scan returns and fails the addresses whose
\* analysis raises.  raised tells whether the call ends by the exception of
\* the scan (line 129; nothing else in the call can escape).
check_recent_activity(block, lookup, scan, txs, fails, raised) ==
    LET current_block == get_current_block(block, lookup)
        start_block == StartBlock(current_block)
        end_block == current_block
        done == analyze_transaction_addresses(
                    txs, fails, monitored_addresses, analysis_attempts)
    IN /\ block >= db_block
       /\ db_block' = block
       /\ check_calls' = Min(CountCap, check_calls + 1)
       /\ IF current_block = 0
          THEN /\ raised = FALSE /\ txs = << >> /\ scan = "ok"
               /\ UNCHANGED <<last_check_block, monitored_addresses,
                              scan_ranges, first_start, observed_block,
                              analysis_attempts>>
          ELSE /\ last_check_block' = current_block
               /\ observed_block' = Max(observed_block, current_block)
               /\ first_start' = IF first_start = -1 THEN start_block
                                 ELSE first_start
               /\ raised = (scan = "fail")
               /\ (scan = "fail" \/ start_block > end_block) => txs = << >>
               /\ scan_ranges' = IF scan = "ok" /\ start_block <= end_block
                                 THEN Append(scan_ranges,
                                             <<start_block, end_block>>)
                                 ELSE scan_ranges
               /\ monitored_addresses' = done.monitored
               /\ analysis_attempts' = done.attempts

\* monitor.py:133-136: the addresses of the transactions a scan returned.
Endpoints(txs) ==
    {txs[i].from : i \in 1..Len(txs)} \cup {txs[i].to : i \in 1..Len(txs)}

\* Whether a tick meets anything new: a higher block, a failed read, a large
\* transaction.  At most MaxEvents ticks do.
Eventful(block, lookup, scan, txs) ==
    block # db_block \/ lookup # "ok" \/ scan # "ok" \/ txs # << >>

CheckInputs(block, lookup, scan, txs, fails) ==
    /\ Eventful(block, lookup, scan, txs) => events_left > 0
    /\ events_left' = IF Eventful(block, lookup, scan, txs)
                      THEN events_left - 1 ELSE events_left
    /\ fails \subseteq Endpoints(txs)

\* monitor.py:255-280: start_monitor builds the monitor and calls
\* start_monitoring (lines 56-61) or check_once (lines 89-90).
start_monitor ==
    /\ mon_pc = "new"
    /\ IF duration_hours # 0
       THEN /\ end_time' = mon_clock + duration_hours * HourUnits
            /\ mon_pc' = "loop"
       ELSE /\ mon_pc' = "once"
            /\ UNCHANGED end_time
    /\ UNCHANGED <<duration_hours, check_interval, mon_clock, last_check_block,
                   monitored_addresses, checks_completed, db_block,
                   events_left, check_calls, scan_ranges, first_start,
                   observed_block, analysis_attempts>>
    /\ UNCHANGED NonMonitorVars

\* monitor.py:92-99: the single check of check_once; its exception leaves
\* check_once and start_monitor.
check_once(block, lookup, scan, txs, fails, raised) ==
    /\ mon_pc = "once"
    /\ CheckInputs(block, lookup, scan, txs, fails)
    /\ check_recent_activity(block, lookup, scan, txs, fails, raised)
    /\ mon_pc' = IF raised THEN "raised" ELSE "done"
    /\ checks_completed' = IF raised THEN checks_completed ELSE 1
    /\ UNCHANGED <<duration_hours, check_interval, mon_clock, end_time>>
    /\ UNCHANGED NonMonitorVars

\* A loop that does not look at the clock.
DurationReachedNever == FALSE

\* monitor.py:64
DurationReached == end_time # -1 /\ mon_clock >= end_time

\* monitor.py:63-78: one turn of the loop: the check, the count and the
\* sleep of the interval, or the sleep of 60 s after a check that raised.
monitor_tick(block, lookup, scan, txs, fails, raised) ==
    /\ mon_pc = "loop"
    /\ ~DurationReached
    /\ CheckInputs(block, lookup, scan, txs, fails)
    /\ check_recent_activity(block, lookup, scan, txs, fails, raised)
    /\ checks_completed' = IF raised THEN checks_completed
                           ELSE Min(CountCap, checks_completed + 1)
    /\ mon_clock' = Min(ClockHorizon,
           mon_clock + (IF raised THEN RetrySleep ELSE check_interval))
    /\ UNCHANGED <<duration_hours, check_interval, end_time, mon_pc>>
    /\ UNCHANGED NonMonitorVars

\* monitor.py:64-66, 80: the duration has elapsed; start_monitoring returns.
monitor_stop ==
    /\ mon_pc = "loop"
    /\ DurationReached
    /\ mon_pc' = "done"
    /\ UNCHANGED <<duration_hours, check_interval, mon_clock, end_time,
                   last_check_block, monitored_addresses, checks_completed,
                   db_block, events_left, check_calls, scan_ranges,
                   first_start, observed_block, analysis_attempts>>
    /\ UNCHANGED NonMonitorVars

MonitorNext ==
    \/ start_monitor
    \/ \E block \in BlockChoices \cup {-1}, lookup \in {"ok", "fail"},
          scan \in {"ok", "fail"}, txs \in LargeTxLists :
       \E fails \in SUBSET Endpoints(txs), raised \in {scan = "fail"} :
           check_once(block, lookup, scan, txs, fails, raised)
    \/ \E block \in BlockChoices \cup {-1}, lookup \in {"ok", "fail"},
          scan \in {"ok", "fail"}, txs \in LargeTxLists :
       \E fails \in SUBSET Endpoints(txs), raised \in {scan = "fail"} :
           monitor_tick(block, lookup, scan, txs, fails, raised)
    \/ monitor_stop

\* C22: over the lifetime of one monitor, the analysis of an endpoint
\* address of a large transaction is begun exactly once: every endpoint the
\* loop of lines 135-136 meets is analyzed unless it is remembered, and no
\* address is analyzed a second time, also after a first attempt that
\* failed.
EndpointAnalyzedOnce ==
    \A a \in CanonAddrs : analysis_attempts[a] <= 1

RangeSize(r) == r[2] - r[1] + 1
RECURSIVE SumRanges(_)
SumRanges(rs) == IF rs = << >> THEN 0 ELSE RangeSize(Head(rs)) + SumRanges(Tail(rs))

\* C27: the ranges scanned by the ticks of one monitor partition the blocks
\* from the first tick's start up to the latest observed current block: no
\* two scanned ranges share a block, and once a scan has reached the latest
\* observed block every block from first_start up to it lies in a scanned
\* range, also when the scan or the block lookup of an earlier tick failed.
ScannedRangesPartition ==
    /\ \A i, j \in 1..Len(scan_ranges) :
           i < j => \/ scan_ranges[i][2] < scan_ranges[j][1]
                    \/ scan_ranges[j][2] < scan_ranges[i][1]
    /\ (scan_ranges # << >>
          /\ scan_ranges[Len(scan_ranges)][2] = observed_block)
       => SumRanges(scan_ranges) = observed_block - first_start + 1

(***************************************************************************)
(*                     Concurrent start_*_job calls                        *)
(***************************************************************************)

\* The requests that call start_*_job at the same time (the routes are
\* plain functions, which the server runs in worker threads) and the
\* seconds the wall clock can show while they run.
MaxCallers == 2
MaxSecond == 1
Callers == 1..MaxCallers

\* automation.py:285-286: "{job_type}_{timestamp}_{self.job_counter}"
JobIdAt(kind, second, counter) == <<kind, second, counter>>

StartCallsInit ==
    /\ call_pc = [c \in Callers |-> "idle"]
    /\ call_kind = [c \in Callers |-> "crawler"]
    /\ call_tmp = [c \in Callers |-> 0]
    /\ call_id = [c \in Callers |-> JobIdAt("crawler", 0, 0)]
    /\ wall_second = 0
    /\ overwritten = FALSE

\* No start call in progress, for the specifications of the other
\* components.
StartCallsIdle == StartCallsInit

\* automation.py:49 and 284: a start call of some kind enters
\* _generate_job_id and loads self.job_counter (the statement
\* `self.job_counter += 1` is a load, an addition and a store; no lock is
\* held).
call_load(c, kind) ==
    /\ call_pc[c] = "idle"
    /\ call_pc' = [call_pc EXCEPT ![c] = "loaded"]
    /\ call_kind' = [call_kind EXCEPT ![c] = kind]
    /\ call_tmp' = [call_tmp EXCEPT ![c] = job_counter]
    /\ UNCHANGED <<call_id, wall_second, overwritten, jvars>>
    /\ UNCHANGED <<cvars, evars, ivars, pvars, svars, mvars, bvars>>

\* automation.py:284: the store of the incremented value.
call_store(c) ==
    /\ call_pc[c] = "loaded"
    /\ call_pc' = [call_pc EXCEPT ![c] = "stored"]
    /\ job_counter' = call_tmp[c] + 1
    /\ UNCHANGED <<call_kind, call_tmp, call_id, wall_second, overwritten>>
    /\ UNCHANGED <<active_jobs, run_mode, pc, cancel_call, ret, cancel_true,
                   cancel_hit, outcome, visited_at_cancel>>
    /\ UNCHANGED <<cvars, evars, ivars, pvars, svars, mvars, bvars>>

\* automation.py:285-286: the timestamp is taken and the id is built from
\* the value self.job_counter has at that moment.
call_format(c) ==
    /\ call_pc[c] = "stored"
    /\ call_pc' = [call_pc EXCEPT ![c] = "named"]
    /\ call_id' = [call_id EXCEPT ![c] = JobIdAt(call_kind[c], wall_second, job_counter)]
    /\ UNCHANGED <<call_kind, call_tmp, wall_second, overwritten, jvars>>
    /\ UNCHANGED <<cvars, evars, ivars, pvars, svars, mvars, bvars>>

\* automation.py:51-66 (and 88-119, 141-175): the job record is stored under
\* the id.
call_register(c) ==
    /\ call_pc[c] = "named"
    /\ call_pc' = [call_pc EXCEPT ![c] = "done"]
    /\ overwritten' = (overwritten \/ call_id[c] \in DOMAIN active_jobs)
    /\ active_jobs' = (call_id[c] :> NewJobInfo(call_kind[c])) @@ active_jobs
    /\ UNCHANGED <<call_kind, call_tmp, call_id, wall_second>>
    /\ UNCHANGED <<job_counter, run_mode, pc, cancel_call, ret, cancel_true,
                   cancel_hit, outcome, visited_at_cancel>>
    /\ UNCHANGED <<cvars, evars, ivars, pvars, svars, mvars, bvars>>

\* The wall clock reaches the next second.
clock_second ==
    /\ wall_second < MaxSecond
    /\ wall_second' = wall_second + 1
    /\ UNCHANGED <<call_pc, call_kind, call_tmp, call_id, overwritten, jvars>>
    /\ UNCHANGED <<cvars, evars, ivars, pvars, svars, mvars, bvars>>

StartCallsNext ==
    \/ \E c \in Callers, kind \in JobKinds : call_load(c, kind)
    \/ \E c \in Callers : call_store(c)
    \/ \E c \in Callers : call_format(c)
    \/ \E c \in Callers : call_register(c)
    \/ clock_second

\* C29: any two start_*_job calls on one controller, concurrent calls of
\* one kind within one second included, obtain distinct job ids, and no
\* start call replaces a record another start call stored in the registry.
StartCallsDistinctIds ==
    /\ \A c, d \in Callers :
           (c # d /\ call_pc[c] \in {"named", "done"}
                  /\ call_pc[d] \in {"named", "done"})
               => call_id[c] # call_id[d]
    /\ ~overwritten

(***************************************************************************)
(*                             BulkAnalyzer                                *)
(***************************************************************************)

\* The length of the list bulk_analyze is given.
MaxBulk == 2

BulkAddressLists == SeqsOfLengths(CanonAddrs, 0..MaxBulk)

\* The scores get_address_risk_score can give, on either side of the 70 of
\* bulk_analysis.py:95.
BulkScoreChoices == {0, 80}

\* What the body of the try of analyze_address_quick does
\* (bulk_analysis.py:26-33): it gets to the score, or one of its calls raises.
QuickOutcomes ==
    { [kind |-> "ok", risk_score |-> r] : r \in BulkScoreChoices }
        \cup { [kind |-> "raise", risk_score |-> 0] }

\* A slot no worker has filled.
NoEntry == [address |-> <<0, "lower">>, status |-> "none", risk_score |-> -1]

\* bulk_analysis.py:43-48 (and 76-82): the entry of an address whose
\* analysis raised; it has no risk_score key (-1).
ErrorEntry(address) ==
    [address |-> address, status |-> "error", risk_score |-> -1]

\* bulk_analysis.py:19-48
analyze_address_quick(address, o) ==
    IF o.kind = "ok"
    THEN [address |-> address, status |-> "analyzed",
          risk_score |-> o.risk_score]
    ELSE ErrorEntry(address)

\* One future for every distinct address.
SubmittedFuturesPerAddress(addresses) ==
    {i \in DOMAIN addresses : \A j \in 1..(i - 1) : addresses[j] # addresses[i]}

\* bulk_analysis.py:67-70: one future is submitted for every element of the
\* list (the dict is keyed by the futures, so equal addresses keep their
\* own future).
SubmittedFutures(addresses) == DOMAIN addresses

\* bulk_analysis.py:93-94: sum(1 for r in results if r["status"] == status)
CountStatus(results, status) ==
    Cardinality({i \in DOMAIN results : results[i].status = status})

\* bulk_analysis.py:95: r.get("risk_score", 0) > 70
CountHighRisk(results) ==
    Cardinality({i \in DOMAIN results :
        results[i].risk_score # -1 /\ results[i].risk_score > 70})

NoReturn == [total_addresses |-> -1, analyzed |-> -1, errors |-> -1,
             high_risk_count |-> -1]

BulkInit ==
    /\ bulk_addresses \in BulkAddressLists
    /\ bulk_parallel \in BOOLEAN
    /\ bulk_pc = "new"
    /\ bulk_futures = {}
    /\ future_result = << >>
    /\ bulk_yielded = {}
    /\ bulk_results = << >>
    /\ bulk_ret = NoReturn

\* The analyzer before bulk_analyze is called, for the specifications of
\* the other components.
BulkIdle ==
    /\ bulk_addresses = << >>
    /\ bulk_parallel = TRUE
    /\ bulk_pc = "new"
    /\ bulk_futures = {}
    /\ future_result = << >>
    /\ bulk_yielded = {}
    /\ bulk_results = << >>
    /\ bulk_ret = NoReturn

\* bulk_analysis.py:61-70, 83-85: the mode is chosen; in parallel mode the
\* futures are submitted.
bulk_begin ==
    /\ bulk_pc = "new"
    /\ IF bulk_parallel /\ Len(bulk_addresses) > 1
       THEN /\ bulk_pc' = "parallel"
            /\ bulk_futures' = SubmittedFutures(bulk_addresses)
            /\ future_result' = [i \in DOMAIN bulk_addresses |-> NoEntry]
       ELSE /\ bulk_pc' = "sequential"
            /\ UNCHANGED <<bulk_futures, future_result>>
    /\ UNCHANGED <<bulk_addresses, bulk_parallel, bulk_yielded, bulk_results,
                   bulk_ret>>
    /\ UNCHANGED NonBulkVars

\* bulk_analysis.py:68: a worker of the pool finishes analyze_address_quick
\* for one future; the workers finish in any order.
bulk_worker(i, o) ==
    /\ bulk_pc = "parallel"
    /\ i \in bulk_futures
    /\ future_result[i] = NoEntry
    /\ future_result' = [future_result EXCEPT
           ![i] = analyze_address_quick(bulk_addresses[i], o)]
    /\ UNCHANGED <<bulk_addresses, bulk_parallel, bulk_pc, bulk_futures,
                   bulk_yielded, bulk_results, bulk_ret>>
    /\ UNCHANGED NonBulkVars

\* bulk_analysis.py:72-75: as_completed yields a finished future it has not
\* yielded before, and the calling thread appends its result.
bulk_collect(i) ==
    /\ bulk_pc = "parallel"
    /\ i \in bulk_futures \ bulk_yielded
    /\ future_result[i] # NoEntry
    /\ bulk_yielded' = bulk_yielded \cup {i}
    /\ bulk_results' = Append(bulk_results, future_result[i])
    /\ UNCHANGED <<bulk_addresses, bulk_parallel, bulk_pc, bulk_futures,
                   future_result, bulk_ret>>
    /\ UNCHANGED NonBulkVars

\* bulk_analysis.py:85-87: one turn of the sequential loop.
bulk_sequential(o) ==
    /\ bulk_pc = "sequential"
    /\ Len(bulk_results) < Len(bulk_addresses)
    /\ bulk_results' = Append(bulk_results,
           analyze_address_quick(bulk_addresses[Len(bulk_results) + 1], o))
    /\ UNCHANGED <<bulk_addresses, bulk_parallel, bulk_pc, bulk_futures,
                   future_result, bulk_yielded, bulk_ret>>
    /\ UNCHANGED NonBulkVars

\* bulk_analysis.py:89-105: the loop is over; the statistics are computed
\* and returned.
bulk_return ==
    /\ \/ bulk_pc = "parallel" /\ bulk_yielded = bulk_futures
       \/ bulk_pc = "sequential" /\ Len(bulk_results) = Len(bulk_addresses)
    /\ bulk_pc' = "done"
    /\ bulk_ret' = [total_addresses |-> Len(bulk_addresses),
                    analyzed |-> CountStatus(bulk_results, "analyzed"),
                    errors |-> CountStatus(bulk_results, "error"),
                    high_risk_count |-> CountHighRisk(bulk_results)]
    /\ UNCHANGED <<bulk_addresses, bulk_parallel, bulk_futures, future_result,
                   bulk_yielded, bulk_results>>
    /\ UNCHANGED NonBulkVars

BulkNext ==
    \/ bulk_begin
    \/ \E i \in 1..MaxBulk, o \in QuickOutcomes : bulk_worker(i, o)
    \/ \E i \in 1..MaxBulk : bulk_collect(i)
    \/ \E o \in QuickOutcomes : bulk_sequential(o)
    \/ bulk_return

\* How often an address occurs in a list of addresses or of entries.
Occurrences(a, addresses) ==
    Cardinality({i \in DOMAIN addresses : addresses[i] = a})
EntriesOf(a, results) ==
    Cardinality({i \in DOMAIN results : results[i].address = a})

\* C30: bulk_analyze returns one result entry for every element of its
\* input list, in parallel and in sequential mode, each with the status
\* 'analyzed' or 'error', so that analyzed + errors = total_addresses; an
\* address whose analysis fails gets an 'error' entry and the analysis of
\* the others goes on (a call that has begun can always take its next step
\* until it returns).
BulkOneEntryPerAddress ==
    /\ bulk_pc \in {"parallel", "sequential"} => ENABLED BulkNext
    /\ \A i \in DOMAIN bulk_results :
           bulk_results[i].status \in {"analyzed", "error"}
    /\ bulk_pc = "done"
       => /\ Len(bulk_results) = Len(bulk_addresses)
          /\ \A a \in CanonAddrs :
                 EntriesOf(a, bulk_results) = Occurrences(a, bulk_addresses)
          /\ bulk_ret.total_addresses = Len(bulk_addresses)
          /\ bulk_ret.analyzed + bulk_ret.errors = bulk_ret.total_addresses

\* A parallel call on a list that names one address twice returned one
\* 'error' entry and one 'analyzed' entry for it.
BulkOneEntryPerAddressWitness ==
    /\ bulk_pc = "done"
    /\ bulk_parallel
    /\ Len(bulk_addresses) >= 2
    /\ bulk_addresses[1] = bulk_addresses[2]
    /\ bulk_ret.errors >= 1
    /\ bulk_ret.analyzed >= 1

(***************************************************************************)
(*                            Specifications                               *)
(***************************************************************************)

\* The job registry alone: the crawler and the expansion stay unused.
SpecJobsInit ==
    JobsInit /\ StartCallsIdle /\ BulkIdle /\ CrawlIdle /\ ExpIdle /\ IngestIdle /\ PipelineIdle /\ ScorerIdle /\ MonitorIdle
SpecJobs == SpecJobsInit /\ [][JobsNext]_vars

\* One crawl, for every choice of its parameters.
SpecCrawlInit ==
    CrawlInit /\ JobsInit /\ StartCallsIdle /\ BulkIdle /\ ExpIdle /\ IngestIdle /\ PipelineIdle /\ ScorerIdle /\ MonitorIdle
SpecCrawl == SpecCrawlInit /\ [][CrawlNext]_vars
\* The same crawl, executed by a thread that keeps running.
SpecCrawlLive == SpecCrawlInit /\ [][CrawlNext]_vars /\ WF_vars(CrawlNext)

\* One crawler job in its background thread, with cancel_job calls.
\* The crawl is one that can go several addresses deep: a single seed, one
\* hop of expansion and room for every address.
SpecJobCrawlInit ==
    /\ JobsInit /\ StartCallsIdle /\ BulkIdle /\ CrawlInit /\ ExpIdle /\ IngestIdle /\ PipelineIdle
    /\ ScorerIdle /\ MonitorIdle
    /\ Len(seed_addresses) = 1
    /\ max_depth = 1
    /\ max_addresses = 3
SpecJobCrawl == SpecJobCrawlInit /\ [][JobCrawlNext]_vars

\* One analyze_with_expansion call, for every choice of its parameters.
SpecExpInit ==
    ExpInit /\ JobsInit /\ StartCallsIdle /\ BulkIdle /\ CrawlIdle /\ IngestIdle /\ PipelineIdle /\ ScorerIdle /\ MonitorIdle
SpecExp == SpecExpInit /\ [][ExpNext]_vars
SpecExpLive == SpecExpInit /\ [][ExpNext]_vars /\ WF_vars(ExpNext)
\* A sequence of ingest_address calls over every ledger.
SpecIngestInit ==
    IngestInit /\ JobsInit /\ StartCallsIdle /\ BulkIdle /\ CrawlIdle /\ ExpIdle /\ PipelineIdle /\ ScorerIdle /\ MonitorIdle
SpecIngest == SpecIngestInit /\ [][IngestNext]_vars
\* Pipeline runs and /analyze calls on a graph that may change between them.
SpecPipelineInit ==
    PipelineInit /\ JobsInit /\ StartCallsIdle /\ BulkIdle /\ CrawlIdle /\ ExpIdle /\ IngestIdle /\ ScorerIdle /\ MonitorIdle
SpecPipeline == SpecPipelineInit /\ [][PipelineNext]_vars
\* Risk Scorer calls on one node, for every feature value and alert count.
SpecScorerInit ==
    /\ ScorerInit /\ JobsInit /\ StartCallsIdle /\ BulkIdle /\ CrawlIdle /\ ExpIdle /\ IngestIdle
    /\ PipelineIdle /\ MonitorIdle
SpecScorer == SpecScorerInit /\ [][ScorerNext]_vars
\* One start_monitor call, for every duration and interval.
SpecMonitorInit ==
    /\ MonitorInit /\ JobsInit /\ StartCallsIdle /\ BulkIdle /\ CrawlIdle /\ ExpIdle /\ IngestIdle
    /\ PipelineIdle /\ ScorerIdle
SpecMonitor == SpecMonitorInit /\ [][MonitorNext]_vars
\* The same call, executed by a thread that keeps running.
SpecMonitorLive == SpecMonitorInit /\ [][MonitorNext]_vars /\ WF_vars(MonitorNext)

\* Start calls made at the same time on one controller.
SpecStartCallsInit ==
    /\ JobsInit /\ StartCallsInit /\ BulkIdle /\ CrawlIdle /\ ExpIdle
    /\ IngestIdle /\ PipelineIdle /\ ScorerIdle /\ MonitorIdle
SpecStartCalls == SpecStartCallsInit /\ [][StartCallsNext]_vars
\* One bulk_analyze call, for every list and both modes.
SpecBulkInit ==
    /\ BulkInit /\ JobsInit /\ StartCallsIdle /\ CrawlIdle /\ ExpIdle
    /\ IngestIdle /\ PipelineIdle /\ ScorerIdle /\ MonitorIdle
SpecBulk == SpecBulkInit /\ [][BulkNext]_vars

====
